---- MODULE Spec2Model ----
(***************************************************************************)
(* Ollamark server: the benchmark ingestion pipeline                       *)
(* (POST /api/submit-benchmark), its middlewares and the proof-of-work     *)
(* service, with the client's solver and request construction.             *)
(*                                                                         *)
(* Strings that the code only compares (identifiers, keys, addresses,      *)
(* model names) are TLA+ strings.  Strings that the code computes on (the  *)
(* proof-of-work challenge, nonce and digest) are sequences of character   *)
(* codes.  Cryptographic primitives are symbolic terms: a MAC, a           *)
(* ciphertext or a signed token records what it was made from, and the     *)
(* matching operation succeeds exactly when the key (and nonce) agree.     *)
(***************************************************************************)
EXTENDS Integers, Sequences, FiniteSets, TLC

\* ------------------------------------------------------------------ bounds
\* Concurrent request handlers (goroutines serving POST /api/submit-benchmark).
NumHandlers == 2
\* The server clock runs from 0 to MaxNow seconds.
MaxNow == 2
\* The client solver gives up after this many candidate nonces (the code's
\* loop is unbounded).
MaxIter == 40
\* Largest difficulty the proof-of-work specification draws.
MaxDifficulty == 4
\* Largest value the load counter reaches in the difficulty specification.
MaxCount == 102
\* The clock of the list specification runs from 0 to MaxListNow seconds.
MaxListNow == 6
\* The client makes at most this many submit attempts.
MaxAttempts == 2
\* checkIP is called at most this many times one call after another.
MaxCalls == 4
\* Largest value of the CLI's iterations flag.
MaxIterations == 2
\* The response body of one iteration holds at most this many JSON values.
MaxChunks == 2
\* At most this many progress ticks are delivered during a run.
MaxDots == 2

\* --------------------------------------------------------------- constants
\* VerifyProofOfWork: a challenge is valid for 60 seconds.
PowValiditySeconds == 60
\* generateJWT: the token expires one minute after it is minted.
TokenLifetimeSeconds == 60
\* A SHA-256 digest printed in hexadecimal has 64 characters.
HexDigestLen == 64
\* requestLimit: per-source requests admitted per window.
requestLimit == 1
\* timeWindow: the per-source window, in seconds.
timeWindow == 1

\* Environment: the shared HMAC secret (KEY) and the RSA key pair
\* (PRIVATE_KEY on the server, PUBLIC_KEY on the client).
KEY == "KEY"
PRIVATE_KEY == "rsa"
PUBLIC_KEY == "rsa"

\* MODELS, the catalog of supported model names (three of its entries).
MODELS == <<"llama3", "phi3", "llama2">>

\* --------------------------------------------------------- character codes
Zero == 48

Digit(d) == Zero + d

\* strconv.Itoa for a non-negative integer.
RECURSIVE Itoa(_)
Itoa(i) == IF i < 10 THEN <<Digit(i)>> ELSE Itoa(i \div 10) \o <<Digit(i % 10)>>

\* strings.Repeat("0", n) for n >= 0 (a negative count panics, see PowPanics).
Repeat(c, n) == [k \in 1..n |-> c]

\* strings.HasPrefix
HasPrefix(s, prefix) ==
    /\ Len(prefix) <= Len(s)
    /\ SubSeq(s, 1, Len(prefix)) = prefix

\* ------------------------------------------------------------------ SHA-256
\* sha256.Sum256 followed by hex.EncodeToString.  The digest is a fixed
\* deterministic function of the whole input, 64 hexadecimal digits long
\* (digits are numbers 0..15 here, printed as their character codes by
\* HexChar).  Mix folds every character of the input into a 12-bit word; the
\* first twelve digits are zero exactly where the word's bits are zero, so
\* that digests with 0, 1, 2, ... leading zero characters all occur.
RECURSIVE MixFrom(_, _, _)
MixFrom(data, k, acc) ==
    IF k > Len(data) THEN acc
    ELSE MixFrom(data, k + 1, (acc * 31 + data[k] * (k + 6)) % 4096)

Mix(data) == MixFrom(data, 1, 7)

HexChar(d) == IF d < 10 THEN Zero + d ELSE 87 + d

HexDigit(m, j) ==
    IF j <= 12
    THEN ((m \div (2 ^ (j - 1))) % 2) * (((m + j) % 15) + 1)
    ELSE (m * j + j) % 16

Sum256Hex(data) == [j \in 1..HexDigestLen |-> HexChar(HexDigit(Mix(data), j))]

\* ------------------------------------------------------------ proof of work
\* A solver that stops one zero short of the requested prefix.
SolverAcceptsShort(challenge, difficulty, i) ==
    HasPrefix(Sum256Hex(challenge \o Itoa(i)), Repeat(Zero, difficulty - 1))

\* The prefix test that solveProofOfWork applies to each candidate nonce.
SolverAccepts(challenge, difficulty, i) ==
    HasPrefix(Sum256Hex(challenge \o Itoa(i)), Repeat(Zero, difficulty))

\* strings.Repeat panics on a negative count.
PowPanics(difficulty) == difficulty < 0

\* A verifier that never looks at the timestamp.
VerifyProofOfWorkNoExpiry(challenge, nonce, difficulty, timestamp, t) ==
    HasPrefix(Sum256Hex(challenge \o nonce), Repeat(Zero, difficulty))

\* VerifyProofOfWork(challenge, nonce, difficulty, timestamp) at server time t.
VerifyProofOfWork(challenge, nonce, difficulty, timestamp, t) ==
    IF t - timestamp > PowValiditySeconds
    THEN FALSE
    ELSE HasPrefix(Sum256Hex(challenge \o nonce), Repeat(Zero, difficulty))

\* --------------------------------------------------------------- signature
HmacSha256(secretKey, message) == [key |-> secretKey, msg |-> message]

\* base64.StdEncoding.EncodeToString of a MAC.
B64Mac(mac) == [b64 |-> TRUE, mac |-> mac]

\* signUUID (client): base64 of HMAC-SHA256(secretKey, uuid).
signUUID(uuid, secretKey) == B64Mac(HmacSha256(secretKey, uuid))

\* verifySignature (server): decode the header, compare with the expected MAC.
\* A header that is not base64 fails to decode; a missing header decodes to
\* the empty byte string, which equals no MAC.
verifySignature(submissionID, signature, secretKey) ==
    LET expectedMAC == HmacSha256(secretKey, submissionID)
    IN  IF ~signature.b64 THEN FALSE ELSE signature.mac = expectedMAC

\* What an absent X-Signature header decodes to: no bytes, the MAC of nothing.
EmptyMac == [key |-> "", msg |-> ""]

\* ------------------------------------------------------------ bearer token
\* A compact signed token: its algorithm, the key it was signed with and its
\* claims.  present = FALSE is a request without an Authorization header.
generateJWT(nonce, t) ==
    [present |-> TRUE, alg |-> "HS256", key |-> KEY,
     exp |-> t + TokenLifetimeSeconds, hasNonce |-> TRUE, nonce |-> nonce]

NoToken ==
    [present |-> FALSE, alg |-> "", key |-> "", exp |-> 0,
     hasNonce |-> FALSE, nonce |-> ""]

HmacAlgs == {"HS256", "HS384", "HS512"}

\* A token check that never looks at the exp claim.
validateJWTNoExpiry(token, t) ==
    /\ token.alg \in HmacAlgs
    /\ token.key = KEY

\* validateJWT at server time t: the key function refuses a non-HMAC method,
\* the signature must verify under KEY, and the exp claim must not be past
\* (jwt-go accepts t <= exp).
validateJWT(token, t) ==
    /\ token.alg \in HmacAlgs
    /\ token.key = KEY
    /\ t <= token.exp

\* ---------------------------------------------------------------- envelope
\* AES key material: its length in bytes and its value.
AesKey(k) == [len |-> 32, k |-> k]

\* generateAESKey: 32 fresh random bytes (one value per submission).
generateAESKey(seed) == AesKey(seed)

\* encryptRSA / EncryptData: RSA-OAEP(SHA-256) under the public key.
encryptRSA(publicKey, data) == [pub |-> publicKey, key |-> data]

\* DecryptData: unwraps only what was wrapped for the matching key pair.
DecryptData(privateKey, ct) == [ok |-> ct.pub = privateKey, key |-> ct.key]

\* aesGCM.NonceSize()
GcmNonceSize == 12

\* An encryption that draws a nonce of 8 bytes.
encryptAESGCMShortNonce(key, nonceValue, plaintext) ==
    [nonce |-> [width |-> 8, n |-> nonceValue],
     ct |-> [k |-> key.k, n |-> nonceValue, pt |-> plaintext, intact |-> TRUE]]

\* encryptAESGCM: a fresh nonce of the cipher's width, then Seal.
encryptAESGCM(key, nonceValue, plaintext) ==
    [nonce |-> [width |-> GcmNonceSize, n |-> nonceValue],
     ct |-> [k |-> key.k, n |-> nonceValue, pt |-> plaintext, intact |-> TRUE]]

AesKeySizes == {16, 24, 32}

\* aesGCM.Open panics when the nonce has the wrong length.
GcmOpenPanics(key, nonce) == key.len \in AesKeySizes /\ nonce.width # GcmNonceSize

\* decryptAESGCM: the key must be a valid AES key; Open authenticates the
\* ciphertext under (key, nonce).
decryptAESGCM(key, nonce, ct) ==
    [ok |-> /\ key.len \in AesKeySizes
            /\ ct.intact
            /\ ct.k = key.k
            /\ ct.n = nonce.n,
     pt |-> ct.pt]

\* base64.StdEncoding.DecodeString with the error dropped: a malformed field
\* decodes to a truncated byte string.
DecodeKey(f) == IF f.b64 THEN f.val ELSE [pub |-> "", key |-> f.val.key]

DecodeNonce(f) == IF f.b64 THEN f.val ELSE [width |-> 0, n |-> ""]

DecodeData(f) == IF f.b64 THEN f.val ELSE [f.val EXCEPT !.intact = FALSE]

B64(v) == [b64 |-> TRUE, val |-> v]

\* submitBenchmark (client), envelope construction: marshal, encrypt with a
\* fresh AES key, wrap the key, base64 the three fields.
Seal(plaintext, publicKey, seed) ==
    LET aesKey == generateAESKey(seed)
        enc == encryptAESGCM(aesKey, seed, plaintext)
    IN  [json |-> TRUE,
         encrypted_key |-> B64(encryptRSA(publicKey, aesKey)),
         nonce |-> B64(enc.nonce),
         data |-> B64(enc.ct)]

\* ----------------------------------------------------------------- payload
\* contains(MODELS, modelName)
contains(models, modelName) == \E k \in 1..Len(models) : models[k] = modelName

\* The benchmark metrics check of the submit handler.
MetricsValid(r) == ~(r.eval_count <= 0 \/ r.tokens_per_second <= 0)

\* A lookup that reports every identifier as unseen.
checkSubmissionIDLax(records, submissionID) ==
    Cardinality({d \in records : d.submissionid = submissionID}) >= 0

\* checkSubmissionID: CountDocuments({"submissionid": id}) == 0 on the store.
checkSubmissionID(records, submissionID) ==
    Cardinality({d \in records : d.submissionid = submissionID}) = 0

\* A schedule whose thresholds include the boundary values.
GetDynamicDifficultyInclusive(count) ==
    IF count >= 100 THEN 6 ELSE IF count >= 50 THEN 5 ELSE 4

\* GetDynamicDifficulty for a load counter value.
GetDynamicDifficulty(count) ==
    IF count > 100 THEN 6 ELSE IF count > 50 THEN 5 ELSE 4

\* GenerateProofOfWorkChallenge at load counter value count and time t, the
\* random bytes being challenge.
GenerateProofOfWorkChallenge(challenge, count, t) ==
    [challenge |-> challenge,
     difficulty |-> GetDynamicDifficulty(count),
     timestamp |-> t]

\* ------------------------------------------------------------------ inputs
\* Submission identifiers (UUIDs) and self-reported source addresses.
IDs == {"id1", "id2"}

IPs == {"10.0.0.1", "10.0.0.2"}

\* A key other than the provisioned shared secret, and a foreign RSA key.
OtherKey == "OTHER"

\* A challenge issued by GET /api/pow-challenge ("2aaa").
ChallengeA == <<50, 97, 97, 97>>

\* solveProofOfWork run to completion: the first candidate the solver accepts.
FirstNonce(challenge, difficulty) ==
    CHOOSE i \in 0..MaxIter :
        /\ SolverAccepts(challenge, difficulty, i)
        /\ \A j \in 0..(i - 1) : ~SolverAccepts(challenge, difficulty, j)

\* A candidate the digest rejects at the given difficulty.
BadNonce(challenge, difficulty) ==
    CHOOSE i \in 0..MaxIter : ~SolverAccepts(challenge, difficulty, i)

BaseDifficulty == GetDynamicDifficulty(0)

SolvedNonce == Itoa(FirstNonce(ChallengeA, BaseDifficulty))

UnsolvedNonce == Itoa(BadNonce(ChallengeA, BaseDifficulty))

\* The solution the client attaches: the challenge echoed with the found nonce.
SolvedPow(t) ==
    [challenge |-> ChallengeA,
     nonce |-> SolvedNonce,
     timestamp |-> t,
     difficulty |-> BaseDifficulty]

\* runBenchmarkCLI, result construction (the fields the server reads).
BenchmarkResult(ip, t) ==
    [model_name |-> "llama3", tokens_per_second |-> 42, eval_count |-> 100,
     sys_info |-> TRUE, gpu_info |-> TRUE, ollama_version |-> "0.1.32",
     submission_id |-> "",
     ip |-> ip, proof_of_work |-> SolvedPow(t)]

\* json.Marshal of a result; json = FALSE is a plaintext that does not
\* unmarshal into a BenchmarkResult.
Marshal(r) == [json |-> TRUE, r |-> r]

\* The client's own address: the one it reports and the one its connections
\* come from.
ClientAddress == "10.0.0.2"

\* submitBenchmark (client): the request posted for a result at time t.  The
\* client uses one identifier for the token nonce, the header and the
\* signature; tokenNonce is a parameter so that requests built outside the
\* client can differ there.  remote is the transport-layer address the
\* server sees the request come from (http.Request.RemoteAddr).
MakeRequest(tokenNonce, submissionID, r, t) ==
    [token |-> generateJWT(tokenNonce, t),
     id |-> submissionID,
     sig |-> signUUID(submissionID, KEY),
     body |-> Seal(Marshal(r), PUBLIC_KEY, "k1"),
     remote |-> ClientAddress]

\* The identifier the client drew for its submission.
ClientIDs == {"id2"}

ClientRequests(t) ==
    {MakeRequest(id, id, BenchmarkResult(ClientAddress, t), t) : id \in ClientIDs}

\* Well-formed requests with a fresh token for their identifier, from either
\* address.
ValidRequests(t) ==
    {MakeRequest(id, id, BenchmarkResult(ip, t), t) : id \in IDs, ip \in IPs}

\* Requests that differ from a client's request in the token.
TokenVariants(rq, t) ==
    {[rq EXCEPT !.token = tk] :
        tk \in {NoToken,
                [rq.token EXCEPT !.alg = "none", !.key = ""],
                [rq.token EXCEPT !.key = OtherKey],
                [rq.token EXCEPT !.exp = t - 1],
                [rq.token EXCEPT !.exp = t],
                [rq.token EXCEPT !.hasNonce = FALSE, !.nonce = ""]}}

\* Requests that differ in the X-Signature header.
SignatureVariants(rq) ==
    {[rq EXCEPT !.sig = sg] :
        sg \in {B64Mac(EmptyMac),
                signUUID(rq.id, OtherKey),
                [b64 |-> FALSE, mac |-> HmacSha256(KEY, rq.id)]}
               \cup {signUUID(other, KEY) : other \in IDs \ {rq.id}}}

\* Requests that differ in the envelope.
EnvelopeVariants(rq) ==
    LET b == rq.body
    IN  {[rq EXCEPT !.body = e] :
            e \in {[b EXCEPT !.json = FALSE],
                   [b EXCEPT !.encrypted_key.val.pub = "other-rsa"],
                   [b EXCEPT !.encrypted_key.val.key.len = 5],
                   [b EXCEPT !.encrypted_key.b64 = FALSE],
                   [b EXCEPT !.nonce.b64 = FALSE],
                   [b EXCEPT !.nonce.val.width = 16],
                   [b EXCEPT !.data.b64 = FALSE],
                   [b EXCEPT !.data.val.intact = FALSE]}}

\* Requests that differ in the plaintext payload.
PayloadVariants(rq, t) ==
    LET r == rq.body.data.val.pt.r
        pow == r.proof_of_work
        WithResult(x) == [rq EXCEPT !.body.data.val.pt.r = x]
    IN  {[rq EXCEPT !.body.data.val.pt.json = FALSE]}
        \cup {WithResult(x) :
                x \in {[r EXCEPT !.model_name = "gpt-4"],
                       [r EXCEPT !.tokens_per_second = 0],
                       [r EXCEPT !.eval_count = 0],
                       [r EXCEPT !.sys_info = FALSE],
                       [r EXCEPT !.gpu_info = FALSE],
                       [r EXCEPT !.submission_id = "id2"]}}
        \cup {WithResult([r EXCEPT !.proof_of_work = w]) :
                w \in {[pow EXCEPT !.nonce = UnsolvedNonce],
                       [pow EXCEPT !.nonce = UnsolvedNonce, !.difficulty = 0],
                       [pow EXCEPT !.timestamp = t - PowValiditySeconds - 1],
                       [pow EXCEPT !.timestamp = t - PowValiditySeconds - 2,
                                   !.difficulty = 0],
                       [pow EXCEPT !.difficulty = -1]}}

\* Every request an arbitrary sender may post at time t: a client's request
\* for any pair (token nonce, submission id) and address, or one variant of
\* such a request.
AnyRequests(t) ==
    LET base == {MakeRequest(n, id, BenchmarkResult(ip, t), t) :
                    n \in IDs, id \in IDs, ip \in IPs}
        plain == {MakeRequest(n, "id1", BenchmarkResult("10.0.0.1", t), t) :
                    n \in IDs}
    IN  base
        \cup UNION {TokenVariants(rq, t) : rq \in plain}
        \cup UNION {SignatureVariants(rq) : rq \in plain}
        \cup UNION {EnvelopeVariants(rq) : rq \in plain}
        \cup UNION {PayloadVariants(rq, t) : rq \in plain}

\* ------------------------------------------------------------------- state
VARIABLES
    now,              \* the server clock, in seconds (time.Now)
    store,            \* the documents of collection ollamark_db.benchmarks
    ipRequests,       \* map[string]int of checkIP
    ipLastRequest,    \* map[string]time.Time of checkIP
    submissionCount,  \* the load counter guarded by submissionCountMutex
    h,                \* the request handlers: request, position, response
    solver,           \* the client's solveProofOfWork loop and its verification
    cache,            \* the read cache (sync.Map): cache key -> CacheItem
    q,                \* the handler of GET /api/benchmarks
    client,           \* the client's submitBenchmark: position, values, attempts
    ticker,           \* the goroutine of StartSubmissionCountReset
    calls,            \* checkIP called for one request after another: verdicts
    cli               \* runBenchmarkCLI: its loop and its progress goroutines

vars == <<now, store, ipRequests, ipLastRequest, submissionCount, h, solver,
          cache, q, client, ticker, calls, cli>>

Handlers == 1..NumHandlers

\* The stages of the submit pipeline, as they are logged in a handler's trace.
StageLimit == "limit"
StageToken == "token"
StageReplayNonce == "replay_nonce"
StageSignature == "signature"
StageReplayId == "replay_id"
StageDecrypt == "decrypt"
StageValidate == "validate"
StagePow == "pow"
StageSource == "source"
StagePersist == "persist"
StageCount == "count"

\* A handler that serves no request yet.
NoRequest == MakeRequest("", "", BenchmarkResult("", 0), 0)

\* pc is the handler's position, resp the responses it wrote (each with the
\* stage that wrote it), trace the stages it ran, persisted whether its
\* InsertOne succeeded, after the handlers that had finished when its request
\* arrived; ipNow and loaded are checkIP's locals: the time it read and the
\* counter value it loaded for the increment.
IdleHandler ==
    [pc |-> "idle", req |-> NoRequest, resp |-> <<>>, trace |-> <<>>,
     persisted |-> FALSE, after |-> {}, ipNow |-> 0, loaded |-> 0]

\* What the client receives: the status of the first response written (gin
\* sends the header with the first body; later c.JSON calls only append), and
\* 200 when the handler chain returns without writing.
WireStatus(hr) == IF hr.resp = <<>> THEN 200 ELSE hr.resp[1].code

\* The server-side open of a request's envelope, up to the decrypted result.
Opened(rq) ==
    LET b == rq.body
        wrapped == DecodeKey(b.encrypted_key)
        gcmNonce == DecodeNonce(b.nonce)
        ciphertext == DecodeData(b.data)
        unwrap == DecryptData(PRIVATE_KEY, wrapped)
        open == decryptAESGCM(unwrap.key, gcmNonce, ciphertext)
    IN  [json |-> b.json,
         unwrapOk |-> unwrap.ok,
         panics |-> GcmOpenPanics(unwrap.key, gcmNonce),
         openOk |-> open.ok,
         pt |-> open.pt]

\* A document that keeps the identifier the payload names, when it names one.
DocumentKeepPayloadId(i, rq) ==
    LET r == Opened(rq).pt.r
        id == IF r.submission_id = "" THEN rq.id ELSE r.submission_id
    IN  [_id |-> i, submissionid |-> id,
         result |-> [r EXCEPT !.submission_id = id]]

\* The document insertBenchmark writes for handler i: the decrypted result
\* with SubmissionID set from the X-Submission-ID header.  The driver derives
\* the field names from the struct's (submissionid, ip, ...); _id is the
\* document's own ObjectID.
Document(i, rq) ==
    LET r == Opened(rq).pt.r
    IN  [_id |-> i, submissionid |-> rq.id,
         result |-> [r EXCEPT !.submission_id = rq.id]]

\* A throttle keyed on the address the connection comes from.
SourceKeyRemote(rq) == rq.remote

\* The key of the per-source check: checkIP(benchmarkResult.IP), the address
\* reported in the decrypted payload.
SourceKey(rq) == Opened(rq).pt.r.ip

\* A window test that never resets the counter.
checkIPLoadNoReset(ip, t, requests, lastRequest) ==
    [requests |-> requests,
     loaded |-> IF ip \in DOMAIN requests THEN requests[ip] ELSE 0]

\* checkIP up to the load of the counter: the window test, which may write
\* ipRequests[ip] = 0, and the value ipRequests[ip]++ reads (0 for a key the
\* map does not hold).
checkIPLoad(ip, t, requests, lastRequest) ==
    LET reset == /\ ip \in DOMAIN lastRequest
                 /\ t - lastRequest[ip] > timeWindow
        requests1 == IF reset
                     THEN [k \in DOMAIN requests \cup {ip} |->
                             IF k = ip THEN 0 ELSE requests[k]]
                     ELSE requests
    IN  [requests |-> requests1,
         loaded |-> IF ip \in DOMAIN requests1 THEN requests1[ip] ELSE 0]

\* checkIP from the store of the incremented counter: ipRequests[ip] gets
\* loaded + 1, ipLastRequest[ip] gets the time read at entry, and the result
\* compares the counter with requestLimit.
checkIPStore(ip, t, loaded, requests, lastRequest) ==
    LET requests2 == [k \in DOMAIN requests \cup {ip} |->
                        IF k = ip THEN loaded + 1 ELSE requests[k]]
        lastRequest2 == [k \in DOMAIN lastRequest \cup {ip} |->
                        IF k = ip THEN t ELSE lastRequest[k]]
    IN  [admitted |-> requests2[ip] <= requestLimit,
         requests |-> requests2,
         lastRequest |-> lastRequest2]

\* checkIP(ip) run at time t without interference: the admission and the new
\* maps.
checkIP(ip, t, requests, lastRequest) ==
    LET l == checkIPLoad(ip, t, requests, lastRequest)
    IN  checkIPStore(ip, t, l.loaded, l.requests, lastRequest)

\* The process runs until the Go runtime detects a concurrent map access and
\* ends it (fatal error: concurrent map writes).
Running == \A i \in Handlers : h[i].pc # "fatal"

\* ---------------------------------------------------------------- read cache
\* fetchBenchmarks serves a cached item younger than this many seconds.
CacheTTLSeconds == 5

\* fetchBenchmarks gives its store operations this many seconds
\* (context.WithTimeout).
QueryTimeoutSeconds == 5

\* The filter GET /api/benchmarks builds from the request's model and
\* ollama_version parameters ("" for a parameter the request does not name;
\* the os, cpu and gpu parameters are left unnamed).
NoFilter == [model |-> "", ollama_version |-> ""]

\* The query GET /api/benchmarks runs when the request names no parameter.
DefaultQuery ==
    [sortBy |-> "timestamp", sortOrder |-> -1, page |-> 1, limit |-> 10,
     filter |-> NoFilter]

Queries == {DefaultQuery}

\* fmt's %s of the filter (a bson.M): map[key:value ...], the keys the filter
\* holds in sorted order, separated by one space.
FormatFilter(filter) ==
    LET m == IF filter.model = "" THEN <<>>
             ELSE <<"modelname:" \o filter.model>>
        v == IF filter.ollama_version = "" THEN <<>>
             ELSE <<"ollamaversion:" \o filter.ollama_version>>
        entries == m \o v
    IN  IF Len(entries) = 0 THEN "map[]"
        ELSE IF Len(entries) = 1 THEN "map[" \o entries[1] \o "]"
        ELSE "map[" \o entries[1] \o " " \o entries[2] \o "]"

\* The cache key: Sprintf("benchmarks:%s:%d:%d:%d:%s", sortBy, sortOrder,
\* page, limit, filter).
cacheKey(query) ==
    "benchmarks:" \o query.sortBy \o ":" \o ToString(query.sortOrder) \o ":"
        \o ToString(query.page) \o ":" \o ToString(query.limit) \o ":"
        \o FormatFilter(query.filter)

\* The documents the $match stage lets through: those equal to the filter in
\* every field the filter names.
Matching(records, query) ==
    {d \in records :
        /\ query.filter.model = "" \/ d.result.model_name = query.filter.model
        /\ \/ query.filter.ollama_version = ""
           \/ d.result.ollama_version = query.filter.ollama_version}

\* The page the pipeline returns: of the matching documents, those left after
\* $skip (page - 1) * limit and $limit limit.
Page(records, query) ==
    LET m == Matching(records, query)
        skip == (query.page - 1) * query.limit
        rest == IF Cardinality(m) > skip THEN Cardinality(m) - skip ELSE 0
        size == IF rest > query.limit THEN query.limit ELSE rest
    IN  CHOOSE S \in SUBSET m : Cardinality(S) = size

\* A lookup that also serves an item aged exactly the TTL.
CacheFreshInclusive(item, t) == t - item.timestamp <= CacheTTLSeconds

\* time.Since(cacheItem.Timestamp) < 5 * time.Second, at time t.
CacheFresh(item, t) == t - item.timestamp < CacheTTLSeconds

\* The list handler between requests.  Of its last request it keeps the
\* answer (code, data, total, fromCache), when the answer was sent
\* (servedAt), when the store was read for the data (readAt), when the
\* item the data came from was cached (entryAt) and the query whose request
\* read the data (storedBy).
IdleQuery ==
    [pc |-> "idle", query |-> DefaultQuery, code |-> 0, data |-> {}, total |-> 0,
     fromCache |-> FALSE, servedAt |-> 0, readAt |-> 0, entryAt |-> 0,
     storedBy |-> DefaultQuery]

\* A handler logs stages and moves on without writing a response.
Pass(i, stages, pc2) ==
    h' = [h EXCEPT ![i].trace = @ \o stages, ![i].pc = pc2]

\* A handler logs stages, writes a response (c.JSON) and moves to pc2.
Reply(i, stages, code, message, pc2) ==
    LET stage == IF stages = <<>> THEN "log" ELSE stages[Len(stages)]
    IN  h' = [h EXCEPT ![i].trace = @ \o stages,
                       ![i].resp = Append(@, [code |-> code, error |-> message,
                                              stage |-> stage]),
                       ![i].pc = pc2]

\* A panic inside the chain: gin's Recovery aborts the request with 500.
Panic(i, stages) == Reply(i, stages, 500, "panic", "done")

\* The client before its first attempt.  Of the running attempt it keeps the
\* steps taken, in order, and the values drawn and received: the submission
\* identifier, the random bytes of the AES key and the GCM nonce (seed), the
\* token, the challenge, the proof-of-work nonce, the posted request and the
\* status received; past holds the same values of the earlier attempts,
\* issued counts the challenges the server has drawn, and result is the
\* benchmark result being submitted.
NoChallenge == [challenge |-> <<>>, difficulty |-> 0, timestamp |-> 0]

IdleClient ==
    [pc |-> "idle", attempt |-> 0, steps |-> <<>>, id |-> "", seed |-> "",
     token |-> NoToken, challenge |-> NoChallenge, nonce |-> <<>>,
     solvedAt |-> 0, req |-> NoRequest, status |-> 0, past |-> <<>>,
     issued |-> 0, result |-> BenchmarkResult("", 0)]

\* runBenchmarkCLI before it is called.  i is the loop's current iteration
\* (counted from 1), chunks the values decoded in it, dots the ticks printed;
\* for iteration k, g[k] is the position of its progress goroutine, sent[k]
\* the number of values sent on its done channel and path[k] the way its
\* decode loop ended.
CliOff ==
    [pc |-> "off", iterations |-> 0, i |-> 0, chunks |-> 0, dots |-> 0,
     g |-> [k \in 1..MaxIterations |-> "none"],
     sent |-> [k \in 1..MaxIterations |-> 0],
     path |-> [k \in 1..MaxIterations |-> ""]]

\* No request has reached checkIP.  n counts the calls, admittedAt[ip] is the
\* time of the most recent call checkIP admitted for ip (-1: none), last is
\* the latest call: its address, time and verdict, and admittedAt[ip] as it
\* was when the call was made (since).
NoCalls ==
    [n |-> 0,
     admittedAt |-> [ip \in IPs |-> -1],
     last |-> [ip |-> "", at |-> 0, admitted |-> FALSE, since |-> -1]]

Init ==
    /\ now = 0
    /\ store = {}
    /\ ipRequests = << >>
    /\ ipLastRequest = << >>
    /\ submissionCount = 0
    /\ h = [i \in Handlers |-> IdleHandler]
    /\ solver = [pc |-> "off", challenge |-> <<>>, difficulty |-> 0,
                 timestamp |-> 0, i |-> 0, nonce |-> <<>>, fromSolver |-> FALSE,
                 checkedAt |-> 0, verified |-> FALSE, afterReset |-> FALSE]
    /\ cache = << >>
    /\ q = IdleQuery
    /\ client = IdleClient
    /\ ticker = [pc |-> "waiting", ran |-> FALSE, wipedDifficulty |-> 0]
    /\ calls = NoCalls
    /\ cli = CliOff

\* Requests are minted at time 0.
AnyRequests0 == AnyRequests(0)

ClientRequests0 == ClientRequests(0)

\* The plaintexts senders seal: json.Marshal of a result, or bytes that are
\* no BenchmarkResult.
Plaintexts == {rq.body.data.val.pt : rq \in AnyRequests0}

\* Values rand.Read may return for an AES key and a GCM nonce.
Seeds == {"k1", "k2"}

\* Handler 1 serves an arbitrary sender, the other handlers serve clients (who
\* may resend an identifier).
Inputs(i) == IF i = 1 THEN AnyRequests0 ELSE ClientRequests0

\* The limiter's verdict and the store's faults (a failed connectDB,
\* CountDocuments or InsertOne) are injected into handler 1's request.
Faults(i) == IF i = 1 THEN BOOLEAN ELSE {FALSE}

\* A limiter that answers 429 and still hands the request to the chain.
GlobalLimitNoAbort(i, rq, limited) ==
    /\ h[i].pc = "idle"
    /\ LET arrived == [h[i] EXCEPT !.req = rq, !.trace = <<StageLimit>>,
                                   !.after = {j \in Handlers : h[j].pc = "done"}]
       IN  IF limited
           THEN h' = [h EXCEPT ![i] =
                        [arrived EXCEPT
                           !.resp = <<[code |-> 429,
                                       error |-> "You have reached maximum request limit.",
                                       stage |-> StageLimit]>>,
                           !.pc = "auth"]]
           ELSE h' = [h EXCEPT ![i] = [arrived EXCEPT !.pc = "auth"]]
    /\ UNCHANGED <<now, store, ipRequests, ipLastRequest, submissionCount, solver, cache, q, client, ticker, calls, cli>>

\* A POST /api/submit-benchmark arrives and runs the global limiter
\* middleware.  Whether the bucket has room depends on all traffic of the
\* sender, so the verdict of tollbooth.LimitByRequest is an input.
GlobalLimit(i, rq, limited) ==
    /\ Running
    /\ h[i].pc = "idle"
    /\ LET arrived == [h[i] EXCEPT !.req = rq, !.trace = <<StageLimit>>,
                                   !.after = {j \in Handlers : h[j].pc = "done"}]
       IN  IF limited
           THEN h' = [h EXCEPT ![i] =
                        [arrived EXCEPT
                           !.resp = <<[code |-> 429,
                                       error |-> "You have reached maximum request limit.",
                                       stage |-> StageLimit]>>,
                           !.pc = "done"]]
           ELSE h' = [h EXCEPT ![i] = [arrived EXCEPT !.pc = "auth"]]
    /\ UNCHANGED <<now, store, ipRequests, ipLastRequest, submissionCount, solver, cache, q, client, ticker, calls, cli>>

\* authMiddleware.  connOk and lookupOk are the outcomes of connectDB and of
\* the CountDocuments round trip.  The two replay branches return without
\* c.Abort(), so gin runs the route handler next.
AuthMiddleware(i, connOk, lookupOk) ==
    /\ Running
    /\ h[i].pc = "auth"
    /\ LET token == h[i].req.token
       IN  IF ~token.present
           THEN Reply(i, <<StageToken>>, 401, "Missing Authorization header", "done")
           ELSE IF ~validateJWT(token, now)
           THEN Reply(i, <<StageToken>>, 401, "invalid token", "done")
           ELSE IF ~connOk
           THEN Reply(i, <<StageToken>>, 500, "Failed to connect to database", "done")
           ELSE IF ~token.hasNonce
           THEN Panic(i, <<StageToken>>)
           ELSE IF ~lookupOk
           THEN Reply(i, <<StageToken, StageReplayNonce>>, 500,
                      "Failed to check submission", "handler")
           ELSE IF ~checkSubmissionID(store, token.nonce)
           THEN Reply(i, <<StageToken, StageReplayNonce>>, 401,
                      "Replay attack detected", "handler")
           ELSE Pass(i, <<StageToken, StageReplayNonce>>, "handler")
    /\ UNCHANGED <<now, store, ipRequests, ipLastRequest, submissionCount, solver, cache, q, client, ticker, calls, cli>>

\* A route handler that checks the signature and skips its own replay check.
HandlerHeadNoReplay(i, lookupOk) ==
    /\ h[i].pc = "handler"
    /\ LET rq == h[i].req
       IN  IF ~verifySignature(rq.id, rq.sig, KEY)
           THEN Reply(i, <<StageSignature>>, 401, "Invalid signature", "done")
           ELSE Pass(i, <<StageSignature>>, "open")
    /\ UNCHANGED <<now, store, ipRequests, ipLastRequest, submissionCount, solver, cache, q, client, ticker, calls, cli>>

\* The route handler up to the second replay check: the signature over the
\* X-Submission-ID header, then CountDocuments on that identifier.
HandlerHead(i, lookupOk) ==
    /\ Running
    /\ h[i].pc = "handler"
    /\ LET rq == h[i].req
       IN  IF ~verifySignature(rq.id, rq.sig, KEY)
           THEN Reply(i, <<StageSignature>>, 401, "Invalid signature", "done")
           ELSE IF ~lookupOk
           THEN Reply(i, <<StageSignature, StageReplayId>>, 500,
                      "Failed to check submission", "done")
           ELSE IF ~checkSubmissionID(store, rq.id)
           THEN Reply(i, <<StageSignature, StageReplayId>>, 401,
                      "Not a unique submission", "done")
           ELSE Pass(i, <<StageSignature, StageReplayId>>, "open")
    /\ UNCHANGED <<now, store, ipRequests, ipLastRequest, submissionCount, solver, cache, q, client, ticker, calls, cli>>

\* The route handler from the envelope to the proof of work: decode and
\* decrypt, unmarshal, metrics, model name, VerifyProofOfWork.
HandlerBody(i) ==
    /\ Running
    /\ h[i].pc = "open"
    /\ LET o == Opened(h[i].req)
           r == o.pt.r
           pow == r.proof_of_work
       IN  IF ~o.json
           THEN Reply(i, <<StageDecrypt>>, 400, "Invalid payload format", "done")
           ELSE IF ~o.unwrapOk
           THEN Reply(i, <<StageDecrypt>>, 401, "Decryption failed", "done")
           ELSE IF o.panics
           THEN Panic(i, <<StageDecrypt>>)
           ELSE IF ~o.openOk
           THEN Reply(i, <<StageDecrypt>>, 401, "Decryption failed", "done")
           ELSE IF ~o.pt.json
           THEN Reply(i, <<StageDecrypt, StageValidate>>, 400,
                      "Invalid benchmark data", "done")
           ELSE IF ~MetricsValid(r)
           THEN Reply(i, <<StageDecrypt, StageValidate>>, 400,
                      "Invalid benchmark metrics", "done")
           ELSE IF ~contains(MODELS, r.model_name)
           THEN Reply(i, <<StageDecrypt, StageValidate>>, 400,
                      "Invalid model name", "done")
           ELSE IF PowPanics(pow.difficulty)
           THEN Panic(i, <<StageDecrypt, StageValidate, StagePow>>)
           ELSE IF ~VerifyProofOfWork(pow.challenge, pow.nonce, pow.difficulty,
                                      pow.timestamp, now)
           THEN Reply(i, <<StageDecrypt, StageValidate, StagePow>>, 401,
                      "Invalid proof-of-work solution", "done")
           ELSE Pass(i, <<StageDecrypt, StageValidate, StagePow>>, "source")
    /\ UNCHANGED <<now, store, ipRequests, ipLastRequest, submissionCount, solver, cache, q, client, ticker, calls, cli>>

\* The per-source check on the address reported in the payload.  checkIP
\* takes no lock, so handlers interleave inside it: this step reads the clock,
\* applies the window test and loads the counter.
CheckSourceLoad(i) ==
    /\ Running
    /\ h[i].pc = "source"
    /\ LET l == checkIPLoad(SourceKey(h[i].req), now, ipRequests, ipLastRequest)
       IN  /\ ipRequests' = l.requests
           /\ h' = [h EXCEPT ![i].ipNow = now, ![i].loaded = l.loaded,
                             ![i].pc = "source_store"]
    /\ UNCHANGED <<now, store, ipLastRequest, submissionCount, solver, cache, q, client, ticker, calls, cli>>

\* The rest of checkIP: store the incremented counter and the time, compare
\* with the limit.  While another handler is inside checkIP the runtime may
\* detect the unsynchronised map access and end the process (fatal).
CheckSourceStore(i, fatal) ==
    /\ Running
    /\ h[i].pc = "source_store"
    /\ fatal => \E j \in Handlers \ {i} : h[j].pc = "source_store"
    /\ IF fatal
       THEN /\ h' = [h EXCEPT ![i].pc = "fatal"]
            /\ UNCHANGED <<ipRequests, ipLastRequest, cache, q, client, ticker, calls, cli>>
       ELSE LET c == checkIPStore(SourceKey(h[i].req), h[i].ipNow,
                                  h[i].loaded, ipRequests, ipLastRequest)
            IN  /\ ipRequests' = c.requests
                /\ ipLastRequest' = c.lastRequest
                /\ IF ~c.admitted
                   THEN Reply(i, <<StageSource>>, 401,
                              "IP address is rate limited", "done")
                   ELSE Pass(i, <<StageSource>>, "insert")
    /\ UNCHANGED <<now, store, submissionCount, solver, cache, q, client, ticker, calls, cli>>

\* An insert that also drops the cached lists.
InsertInvalidating(i, insertOk) ==
    /\ h[i].pc = "insert"
    /\ store' = store \cup {Document(i, h[i].req)}
    /\ h' = [h EXCEPT ![i].trace = Append(@, StagePersist),
                      ![i].persisted = TRUE,
                      ![i].pc = "count"]
    /\ cache' = << >>
    /\ UNCHANGED <<now, ipRequests, ipLastRequest, submissionCount, solver, q, client, ticker, calls, cli>>

\* The log lines dereference SysInfo and GPUInfo; then insertBenchmark.  A
\* failed insert returns without writing a response.
Insert(i, insertOk) ==
    /\ Running
    /\ h[i].pc = "insert"
    /\ LET rq == h[i].req
           r == Opened(rq).pt.r
       IN  IF ~r.sys_info \/ ~r.gpu_info
           THEN Panic(i, <<>>) /\ store' = store
           ELSE IF ~insertOk
           THEN Pass(i, <<StagePersist>>, "done") /\ store' = store
           ELSE /\ store' = store \cup {Document(i, rq)}
                /\ h' = [h EXCEPT ![i].trace = Append(@, StagePersist),
                                  ![i].persisted = TRUE,
                                  ![i].pc = "count"]
    /\ UNCHANGED <<now, ipRequests, ipLastRequest, submissionCount, solver, cache, q, client, ticker, calls, cli>>

\* A final step that answers 200 and leaves the load counter alone.
CountLost(i) ==
    /\ h[i].pc = "count"
    /\ submissionCount' = submissionCount
    /\ Reply(i, <<StageCount>>, 200, "", "done")
    /\ UNCHANGED <<now, store, ipRequests, ipLastRequest, solver, cache, q, client, ticker, calls, cli>>

\* IncrementSubmissionCount, then the 200 response.
Count(i) ==
    /\ Running
    /\ h[i].pc = "count"
    /\ submissionCount' = submissionCount + 1
    /\ Reply(i, <<StageCount>>, 200, "", "done")
    /\ UNCHANGED <<now, store, ipRequests, ipLastRequest, solver, cache, q, client, ticker, calls, cli>>

\* The ticker goroutine of StartSubmissionCountReset.
ResetSubmissionCount ==
    /\ Running
    /\ submissionCount' = 0
    /\ UNCHANGED <<now, store, ipRequests, ipLastRequest, h, solver, cache, q, client, ticker, calls, cli>>

\* One second passes.
Tick ==
    /\ now < MaxNow
    /\ now' = now + 1
    /\ UNCHANGED <<store, ipRequests, ipLastRequest, submissionCount, h, solver, cache, q, client, ticker, calls, cli>>

Next ==
    \/ \E i \in Handlers : \E limited \in Faults(i), rq \in Inputs(i) :
          GlobalLimit(i, rq, limited)
    \/ \E i \in Handlers : \E connFails \in Faults(i), lookupFails \in Faults(i) :
          AuthMiddleware(i, ~connFails, ~lookupFails)
    \/ \E i \in Handlers : \E lookupFails \in Faults(i) : HandlerHead(i, ~lookupFails)
    \/ \E i \in Handlers : HandlerBody(i)
    \/ \E i \in Handlers : CheckSourceLoad(i)
    \/ \E i \in Handlers : \E fatal \in BOOLEAN : CheckSourceStore(i, fatal)
    \/ \E i \in Handlers : \E insertFails \in Faults(i) : Insert(i, ~insertFails)
    \/ \E i \in Handlers : Count(i)
    \/ ResetSubmissionCount

\* A burst of submit requests served within one second: handlers interleave
\* freely, the clock stands still.
Spec == Init /\ [][Next]_vars

\* ------------------------------------------- proof of work: client and server
\* Challenges as GenerateProofOfWorkChallenge encodes them ("0aaa", "1aaa",
\* "2aaa"), and the times at which a challenge may have been issued.
Challenges == {<<48, 97, 97, 97>>, <<49, 97, 97, 97>>, ChallengeA}

IssueTimes ==
    {0, 0 - PowValiditySeconds, 0 - PowValiditySeconds - 1, PowValiditySeconds}

\* The client receives a challenge and enters solveProofOfWork (i := 0).
StartSolve(challenge, difficulty, timestamp) ==
    /\ solver.pc = "off"
    /\ solver' = [solver EXCEPT !.pc = "solving", !.challenge = challenge,
                                !.difficulty = difficulty,
                                !.timestamp = timestamp, !.i = 0]
    /\ UNCHANGED <<now, store, ipRequests, ipLastRequest, submissionCount, h, cache, q, client, ticker, calls, cli>>

\* One iteration of the solver's loop: return the candidate or increment it.
SolveStep ==
    /\ solver.pc = "solving"
    /\ IF SolverAccepts(solver.challenge, solver.difficulty, solver.i)
       THEN solver' = [solver EXCEPT !.pc = "solved", !.nonce = Itoa(solver.i),
                                     !.fromSolver = TRUE]
       ELSE /\ solver.i < MaxIter
            /\ solver' = [solver EXCEPT !.i = @ + 1]
    /\ UNCHANGED <<now, store, ipRequests, ipLastRequest, submissionCount, h, cache, q, client, ticker, calls, cli>>

\* Instead of solving, a sender picks some candidate nonce.
PickNonce(k) ==
    /\ solver.pc = "solving"
    /\ solver.i = 0
    /\ solver' = [solver EXCEPT !.pc = "solved", !.nonce = Itoa(k),
                                !.fromSolver = FALSE]
    /\ UNCHANGED <<now, store, ipRequests, ipLastRequest, submissionCount, h, cache, q, client, ticker, calls, cli>>

\* The server verifies the presented solution at its current time.
VerifySolution ==
    /\ solver.pc = "solved"
    /\ solver' = [solver EXCEPT
                    !.pc = "checked",
                    !.checkedAt = now,
                    !.verified = VerifyProofOfWork(solver.challenge, solver.nonce,
                                                   solver.difficulty,
                                                   solver.timestamp, now)]
    /\ UNCHANGED <<now, store, ipRequests, ipLastRequest, submissionCount, h, cache, q, client, ticker, calls, cli>>

NextPow ==
    \/ \E c \in Challenges, d \in 0..MaxDifficulty, ts \in IssueTimes :
          StartSolve(c, d, ts)
    \/ SolveStep
    \/ \E k \in 0..MaxIter : PickNonce(k)
    \/ VerifySolution
    \/ Tick

\* The client's solver against the server's verifier, the clock running.
SpecPow == Init /\ [][NextPow]_vars

\* ------------------------------------------------------- per-source limit
ValidRequests0 == ValidRequests(0)

\* Transport-layer addresses requests arrive from: the client's, and one that
\* no payload reports.
Remotes == {ClientAddress, "192.0.2.9"}

\* Any well-formed request arriving from any transport address.
ArrivingRequests0 ==
    {[rq EXCEPT !.remote = a] : rq \in ValidRequests0, a \in Remotes}

\* Handler 1 serves any well-formed request from any transport address, the
\* others the client's.
ThrottleInputs(i) == IF i = 1 THEN ArrivingRequests0 ELSE ClientRequests0

NextThrottle ==
    \/ \E i \in Handlers : \E rq \in ThrottleInputs(i) : GlobalLimit(i, rq, FALSE)
    \/ \E i \in Handlers : AuthMiddleware(i, TRUE, TRUE)
    \/ \E i \in Handlers : HandlerHead(i, TRUE)
    \/ \E i \in Handlers : HandlerBody(i)
    \/ \E i \in Handlers : CheckSourceLoad(i)
    \/ \E i \in Handlers : \E fatal \in BOOLEAN : CheckSourceStore(i, fatal)
    \/ \E i \in Handlers : Insert(i, TRUE)
    \/ \E i \in Handlers : Count(i)
    \/ ResetSubmissionCount
    \/ Tick

\* Well-formed submissions spread over several seconds, no store failures.
SpecThrottle == Init /\ [][NextThrottle]_vars

\* ------------------------------------------------------------ list queries
\* GET /api/benchmarks up to the store reads: fetchBenchmarks looks the key
\* up and answers from a fresh item; otherwise it runs Aggregate and
\* CountDocuments (readOk: both succeed), and a failure is answered 500.
\* Each cached item also records when its data was read from the store and
\* for which query.
FetchLookup(query, readOk) ==
    /\ Running
    /\ q.pc \in {"idle", "done"}
    /\ LET key == cacheKey(query)
       IN  IF key \in DOMAIN cache /\ CacheFresh(cache[key], now)
           THEN q' = [pc |-> "done", query |-> query, code |-> 200,
                      data |-> cache[key].data, total |-> cache[key].count,
                      fromCache |-> TRUE, servedAt |-> now,
                      readAt |-> cache[key].readAt,
                      entryAt |-> cache[key].timestamp,
                      storedBy |-> cache[key].query]
           ELSE IF ~readOk
           THEN q' = [IdleQuery EXCEPT !.pc = "done", !.query = query,
                                       !.code = 500, !.servedAt = now]
           ELSE q' = [IdleQuery EXCEPT !.pc = "fetched", !.query = query,
                                       !.data = Page(store, query),
                                       !.total = Cardinality(Matching(store, query)),
                                       !.readAt = now, !.storedBy = query]
    /\ UNCHANGED <<now, store, ipRequests, ipLastRequest, submissionCount, h,
                   solver, cache, client, ticker, calls, cli>>

\* The rest of fetchBenchmarks.  If the context's deadline has passed, the
\* pending store operation fails and the handler answers 500; otherwise
\* cache.Store under the key with time.Now(), then the 200 response.
FetchStore ==
    /\ Running
    /\ q.pc = "fetched"
    /\ IF now - q.readAt > QueryTimeoutSeconds
       THEN /\ q' = [IdleQuery EXCEPT !.pc = "done", !.query = q.query,
                                      !.code = 500, !.servedAt = now]
            /\ cache' = cache
       ELSE /\ LET key == cacheKey(q.query)
                   item == [data |-> q.data, count |-> q.total,
                            timestamp |-> now, readAt |-> q.readAt,
                            query |-> q.query]
               IN  cache' = [k \in DOMAIN cache \cup {key} |->
                                IF k = key THEN item ELSE cache[k]]
            /\ q' = [q EXCEPT !.pc = "done", !.code = 200, !.servedAt = now,
                              !.entryAt = now]
    /\ UNCHANGED <<now, store, ipRequests, ipLastRequest, submissionCount, h,
                   solver, client, ticker, calls, cli>>

\* One second passes while lists are queried.
TickList ==
    /\ now < MaxListNow
    /\ now' = now + 1
    /\ UNCHANGED <<store, ipRequests, ipLastRequest, submissionCount, h, solver,
                   cache, q, client, ticker, calls, cli>>

\* The handler that serves the one submission of the list specification.
ListSubmitters == {1}

NextList ==
    \/ \E i \in ListSubmitters : \E rq \in ClientRequests0 : GlobalLimit(i, rq, FALSE)
    \/ \E i \in ListSubmitters : AuthMiddleware(i, TRUE, TRUE)
    \/ \E i \in ListSubmitters : HandlerHead(i, TRUE)
    \/ \E i \in ListSubmitters : HandlerBody(i)
    \/ \E i \in ListSubmitters : CheckSourceLoad(i)
    \/ \E i \in ListSubmitters : CheckSourceStore(i, FALSE)
    \/ \E i \in ListSubmitters : Insert(i, TRUE)
    \/ \E i \in ListSubmitters : Count(i)
    \/ \E query \in Queries, readOk \in BOOLEAN : FetchLookup(query, readOk)
    \/ FetchStore
    \/ TickList

\* List queries around one submission, the clock running past the cache TTL.
SpecList == Init /\ [][NextList]_vars

\* ------------------------------------------------------------------ client
\* uuid.New(), rand.Read: the n-th value drawn differs from all drawn before.
generateUUID(n) == "id" \o ToString(n)

RandomBytes(n) == "k" \o ToString(n)

\* The 32 random bytes of the n-th challenge the server issues, in hex
\* ("0aaa", "1aaa", ...).
ChallengeBytes(n) == <<Zero + ((n - 1) % 10), 97, 97, 97>>

\* Seconds a GET /api/pow-challenge may take to reach the server, and seconds
\* the solver's loop may run.
Latencies == {0, 1}

SolveSeconds == {0, TokenLifetimeSeconds - 1, TokenLifetimeSeconds}

\* The results runBenchmark hands to submitBenchmark: getGPUInfo returns nil
\* on a machine where it detects no GPU.
ClientResults ==
    {[BenchmarkResult(ClientAddress, 0) EXCEPT !.gpu_info = found] :
        found \in BOOLEAN}

\* What the client keeps of an attempt once it is over.
AttemptRecord(c) ==
    [id |-> c.id, seed |-> c.seed, token |-> c.token, challenge |-> c.challenge,
     nonce |-> c.nonce, status |-> c.status]

\* A client that keeps the identifier of its failed attempt.
ClientPrepareKeepId(benchmarkResult) ==
    /\ client.pc \in {"idle", "failed"}
    /\ client.attempt > 0 => benchmarkResult = client.result
    /\ client.attempt < MaxAttempts
    /\ client.attempt < NumHandlers
    /\ LET n == client.attempt + 1
           id == IF client.attempt = 0 THEN generateUUID(n) ELSE client.id
       IN  client' = [client EXCEPT
                        !.pc = "prepared",
                        !.attempt = n,
                        !.steps = <<"aes_key", "uuid", "token">>,
                        !.seed = RandomBytes(n),
                        !.id = id,
                        !.token = generateJWT(id, now),
                        !.result = benchmarkResult,
                        !.challenge = NoChallenge,
                        !.nonce = <<>>,
                        !.solvedAt = 0,
                        !.req = NoRequest,
                        !.status = 0,
                        !.past = IF client.attempt = 0 THEN <<>>
                                 ELSE Append(@, AttemptRecord(client))]
    /\ UNCHANGED <<now, store, ipRequests, ipLastRequest, submissionCount, h,
                   solver, cache, q, ticker, calls, cli>>

\* submitBenchmark(benchmarkResult) (and submitButton.OnTapped) up to the
\* token: a call starts an attempt, first or after a failed one, an attempt
\* after the first submitting the same result; generateAESKey, generateUUID,
\* generateJWT(submissionID).
ClientPrepare(benchmarkResult) ==
    /\ client.pc \in {"idle", "failed"}
    /\ client.attempt > 0 => benchmarkResult = client.result
    /\ client.attempt < MaxAttempts
    /\ client.attempt < NumHandlers
    /\ LET n == client.attempt + 1
           id == generateUUID(n)
       IN  client' = [client EXCEPT
                        !.pc = "prepared",
                        !.attempt = n,
                        !.steps = <<"aes_key", "uuid", "token">>,
                        !.seed = RandomBytes(n),
                        !.id = id,
                        !.token = generateJWT(id, now),
                        !.result = benchmarkResult,
                        !.challenge = NoChallenge,
                        !.nonce = <<>>,
                        !.solvedAt = 0,
                        !.req = NoRequest,
                        !.status = 0,
                        !.past = IF client.attempt = 0 THEN <<>>
                                 ELSE Append(@, AttemptRecord(client))]
    /\ UNCHANGED <<now, store, ipRequests, ipLastRequest, submissionCount, h,
                   solver, cache, q, ticker, calls, cli>>

\* requestProofOfWorkChallenge: the request reaches the server after latency
\* seconds, and GET /api/pow-challenge answers GenerateProofOfWorkChallenge().
ClientChallenge(latency) ==
    /\ client.pc = "prepared"
    /\ now' = now + latency
    /\ client' = [client EXCEPT
                    !.pc = "challenged",
                    !.steps = Append(@, "challenge"),
                    !.issued = @ + 1,
                    !.challenge = GenerateProofOfWorkChallenge(
                                      ChallengeBytes(client.issued + 1),
                                      submissionCount, now')]
    /\ UNCHANGED <<store, ipRequests, ipLastRequest, submissionCount, h, solver,
                   cache, q, ticker, calls, cli>>

\* solveProofOfWork(challenge), which runs for some seconds.
ClientSolve(seconds) ==
    /\ client.pc = "challenged"
    /\ now' = now + seconds
    /\ client' = [client EXCEPT
                    !.pc = "solved",
                    !.steps = Append(@, "solve"),
                    !.solvedAt = now',
                    !.nonce = Itoa(FirstNonce(client.challenge.challenge,
                                              client.challenge.difficulty))]
    /\ UNCHANGED <<store, ipRequests, ipLastRequest, submissionCount, h, solver,
                   cache, q, ticker, calls, cli>>

\* The rest of submitBenchmark up to client.Do: attach the solution to the
\* result, marshal and encrypt it, wrap the key, sign the identifier, post.
ClientPost ==
    /\ client.pc = "solved"
    /\ LET pow == [challenge |-> client.challenge.challenge,
                   nonce |-> client.nonce,
                   timestamp |-> client.challenge.timestamp,
                   difficulty |-> client.challenge.difficulty]
           r == [client.result EXCEPT !.proof_of_work = pow]
       IN  client' = [client EXCEPT
                        !.pc = "posted",
                        !.steps = @ \o <<"seal", "sign", "post">>,
                        !.req = [token |-> client.token,
                                 id |-> client.id,
                                 sig |-> signUUID(client.id, KEY),
                                 body |-> Seal(Marshal(r), PUBLIC_KEY, client.seed),
                                 remote |-> ClientAddress]]
    /\ UNCHANGED <<now, store, ipRequests, ipLastRequest, submissionCount, h,
                   solver, cache, q, ticker, calls, cli>>

\* The server takes the posted request: the attempt's handler starts.
ClientArrive(i) ==
    /\ client.pc = "posted"
    /\ i = client.attempt
    /\ GlobalLimit(i, client.req, FALSE)

\* The client reads the response status: 200 ends the submission, any other
\* status is reported and the user may submit again.
ClientResponse ==
    /\ client.pc = "posted"
    /\ h[client.attempt].pc = "done"
    /\ client' = [client EXCEPT
                    !.status = WireStatus(h[client.attempt]),
                    !.pc = IF WireStatus(h[client.attempt]) = 200
                           THEN "ok" ELSE "failed"]
    /\ UNCHANGED <<now, store, ipRequests, ipLastRequest, submissionCount, h,
                   solver, cache, q, ticker, calls, cli>>

NextClient ==
    \/ \E benchmarkResult \in ClientResults : ClientPrepare(benchmarkResult)
    \/ \E latency \in Latencies : ClientChallenge(latency)
    \/ \E seconds \in SolveSeconds : ClientSolve(seconds)
    \/ ClientPost
    \/ \E i \in Handlers : ClientArrive(i)
    \/ \E i \in Handlers : AuthMiddleware(i, TRUE, TRUE)
    \/ \E i \in Handlers : HandlerHead(i, TRUE)
    \/ \E i \in Handlers : HandlerBody(i)
    \/ \E i \in Handlers : CheckSourceLoad(i)
    \/ \E i \in Handlers : CheckSourceStore(i, FALSE)
    \/ \E i \in Handlers : Insert(i, TRUE)
    \/ \E i \in Handlers : Count(i)
    \/ ClientResponse

\* One client submitting, and submitting again after a failure, to the
\* server.
SpecClient == Init /\ [][NextClient]_vars

\* ------------------------------------------------------- admin operations
\* removeBenchmark(client, submissionID): DeleteOne removes one document with
\* that submissionid, if there is one.
removeBenchmark(submissionID) ==
    /\ Running
    /\ \E d \in store :
          /\ d.submissionid = submissionID
          /\ store' = store \ {d}
    /\ UNCHANGED <<now, ipRequests, ipLastRequest, submissionCount, h, solver,
                   cache, q, client, ticker, calls, cli>>

\* banIP(ip): DeleteMany removes every document whose ip field is ip (a
\* failed connectDB panics before the store is touched).  Nothing else is
\* written: the address is not recorded anywhere.
banIP(ip) ==
    /\ Running
    /\ \E d \in store : d.result.ip = ip
    /\ store' = {d \in store : d.result.ip # ip}
    /\ UNCHANGED <<now, ipRequests, ipLastRequest, submissionCount, h, solver,
                   cache, q, client, ticker, calls, cli>>

NextAdmin ==
    \/ \E i \in Handlers : \E rq \in ThrottleInputs(i) : GlobalLimit(i, rq, FALSE)
    \/ \E i \in Handlers : AuthMiddleware(i, TRUE, TRUE)
    \/ \E i \in Handlers : HandlerHead(i, TRUE)
    \/ \E i \in Handlers : HandlerBody(i)
    \/ \E i \in Handlers : CheckSourceLoad(i)
    \/ \E i \in Handlers : \E fatal \in BOOLEAN : CheckSourceStore(i, fatal)
    \/ \E i \in Handlers : Insert(i, TRUE)
    \/ \E i \in Handlers : Count(i)
    \/ \E id \in IDs : removeBenchmark(id)
    \/ \E ip \in IPs : banIP(ip)

\* Well-formed submissions while an administrator removes records.
SpecAdmin == Init /\ [][NextAdmin]_vars

\* --------------------------------------------------------------- cache keys
\* Requests GET /api/benchmarks may receive: no parameter; model=llama3 and
\* ollama_version=0.1.32; the one parameter model="llama3
\* ollamaversion:0.1.32"; page=2.
KeyQueries ==
    {DefaultQuery,
     [DefaultQuery EXCEPT !.filter = [model |-> "llama3",
                                      ollama_version |-> "0.1.32"]],
     [DefaultQuery EXCEPT !.filter = [model |-> "llama3 ollamaversion:0.1.32",
                                      ollama_version |-> ""]],
     [DefaultQuery EXCEPT !.page = 2]}

NextKeys ==
    \/ \E i \in ListSubmitters : \E rq \in ClientRequests0 : GlobalLimit(i, rq, FALSE)
    \/ \E i \in ListSubmitters : AuthMiddleware(i, TRUE, TRUE)
    \/ \E i \in ListSubmitters : HandlerHead(i, TRUE)
    \/ \E i \in ListSubmitters : HandlerBody(i)
    \/ \E i \in ListSubmitters : CheckSourceLoad(i)
    \/ \E i \in ListSubmitters : CheckSourceStore(i, FALSE)
    \/ \E i \in ListSubmitters : Insert(i, TRUE)
    \/ \E i \in ListSubmitters : Count(i)
    \/ \E query \in KeyQueries : FetchLookup(query, TRUE)
    \/ FetchStore

\* List queries with different parameters around one submission, all within
\* the cache TTL.
SpecKeys == Init /\ [][NextKeys]_vars

\* ------------------------------------------------------- per-source window
\* A request claiming address ip reaches checkIP while no other request is
\* inside it.
CheckIPCall(ip) ==
    /\ calls.n < MaxCalls
    /\ LET c == checkIP(ip, now, ipRequests, ipLastRequest)
       IN  /\ ipRequests' = c.requests
           /\ ipLastRequest' = c.lastRequest
           /\ calls' = [n |-> calls.n + 1,
                        admittedAt |-> IF c.admitted
                                       THEN [calls.admittedAt EXCEPT ![ip] = now]
                                       ELSE calls.admittedAt,
                        last |-> [ip |-> ip, at |-> now, admitted |-> c.admitted,
                                  since |-> calls.admittedAt[ip]]]
    /\ UNCHANGED <<now, store, submissionCount, h, solver, cache, q, client, ticker, cli>>

NextSource ==
    \/ \E ip \in IPs : CheckIPCall(ip)
    \/ Tick

\* Requests reaching the per-source check one after another, over several
\* seconds.
SpecSource == Init /\ [][NextSource]_vars

\* ------------------------------------------------------------ CLI benchmark
\* runBenchmarkCLI is called with the iterations flag; the model is pulled.
CliStart(iterations) ==
    /\ cli.pc = "off"
    /\ cli' = [cli EXCEPT !.pc = "loop", !.iterations = iterations]
    /\ UNCHANGED <<now, store, ipRequests, ipLastRequest, submissionCount, h, solver, cache, q, client, ticker, calls>>

\* The head of one iteration: http.Post to /api/generate (an error returns),
\* then the ticker, the done channel and the progress goroutine, which
\* starts at its select.
CliPost(postOk) ==
    /\ cli.pc = "loop"
    /\ cli.i < cli.iterations
    /\ cli' = IF ~postOk
              THEN [cli EXCEPT !.pc = "returned"]
              ELSE [cli EXCEPT !.pc = "decode", !.i = @ + 1, !.chunks = 0,
                               !.g[cli.i + 1] = "select"]
    /\ UNCHANGED <<now, store, ipRequests, ipLastRequest, submissionCount, h, solver, cache, q, client, ticker, calls>>

\* decoder.Decode: a value (appended to the response text), io.EOF or another
\* error; on the last two the loop goes on to send on done.
CliDecode(outcome) ==
    /\ cli.pc = "decode"
    /\ outcome = "value" => cli.chunks < MaxChunks
    /\ cli' = IF outcome = "value" THEN [cli EXCEPT !.chunks = @ + 1]
              ELSE IF outcome = "eof"
              THEN [cli EXCEPT !.pc = "send_eof", !.path[cli.i] = "eof"]
              ELSE [cli EXCEPT !.pc = "send_err", !.path[cli.i] = "error"]
    /\ UNCHANGED <<now, store, ipRequests, ipLastRequest, submissionCount, h, solver, cache, q, client, ticker, calls>>

\* The goroutine of iteration k takes case <-progressTicker.C and prints a dot.
CliProgress(k) ==
    /\ cli.g[k] = "select"
    /\ cli.dots < MaxDots
    /\ cli' = [cli EXCEPT !.dots = @ + 1]
    /\ UNCHANGED <<now, store, ipRequests, ipLastRequest, submissionCount, h, solver, cache, q, client, ticker, calls>>

\* A decode loop that sends on done at io.EOF and goes on decoding.
CliDoneNoBreak(k) ==
    /\ cli.pc \in {"send_eof", "send_err"}
    /\ k = cli.i
    /\ cli.g[k] = "select"
    /\ cli' = [cli EXCEPT !.sent[k] = @ + 1, !.g[k] = "received",
                          !.pc = IF cli.pc = "send_eof" THEN "decode"
                                 ELSE "returned"]
    /\ UNCHANGED <<now, store, ipRequests, ipLastRequest, submissionCount, h, solver, cache, q, client, ticker, calls>>

\* done <- true meets case <-done of the iteration's goroutine (the channel
\* is unbuffered: the send completes when the goroutine receives).  After
\* io.EOF the loop breaks, the iteration's figures are added and the next
\* iteration is due; after another error runBenchmarkCLI returns.
CliDone(k) ==
    /\ cli.pc \in {"send_eof", "send_err"}
    /\ k = cli.i
    /\ cli.g[k] = "select"
    /\ cli' = [cli EXCEPT !.sent[k] = @ + 1, !.g[k] = "received",
                          !.pc = IF cli.pc = "send_eof" THEN "loop"
                                 ELSE "returned"]
    /\ UNCHANGED <<now, store, ipRequests, ipLastRequest, submissionCount, h, solver, cache, q, client, ticker, calls>>

\* The goroutine prints the newline and returns.
CliGoroutineReturn(k) ==
    /\ cli.g[k] = "received"
    /\ cli' = [cli EXCEPT !.g[k] = "returned"]
    /\ UNCHANGED <<now, store, ipRequests, ipLastRequest, submissionCount, h, solver, cache, q, client, ticker, calls>>

\* The loop has run all its iterations: the averages are printed and the
\* result is built.
CliFinish ==
    /\ cli.pc = "loop"
    /\ cli.i = cli.iterations
    /\ cli' = [cli EXCEPT !.pc = "finished"]
    /\ UNCHANGED <<now, store, ipRequests, ipLastRequest, submissionCount, h, solver, cache, q, client, ticker, calls>>

NextCli ==
    \/ \E iterations \in 1..MaxIterations : CliStart(iterations)
    \/ \E postOk \in BOOLEAN : CliPost(postOk)
    \/ \E outcome \in {"value", "eof", "error"} : CliDecode(outcome)
    \/ \E k \in 1..MaxIterations : CliProgress(k)
    \/ \E k \in 1..MaxIterations : CliDone(k)
    \/ \E k \in 1..MaxIterations : CliGoroutineReturn(k)
    \/ CliFinish

\* One run of the CLI benchmark.  The Go scheduler runs every goroutine that
\* can take a step, and a select with a ready sender on done takes that case
\* after finitely many ticks.
SpecCli ==
    /\ Init /\ [][NextCli]_vars
    /\ \A k \in 1..MaxIterations :
          WF_vars(CliDone(k)) /\ WF_vars(CliGoroutineReturn(k))

\* ----------------------------------------------------- difficulty schedule
\* IncrementSubmissionCount on its own: an accepted submission seen from the
\* load counter.
IncrementSubmissionCount ==
    /\ Running
    /\ submissionCount < MaxCount
    /\ submissionCount' = submissionCount + 1
    /\ UNCHANGED <<now, store, ipRequests, ipLastRequest, h, solver, cache, q, client, ticker, calls, cli>>

\* GET /api/pow-challenge: the server issues a challenge at the current load
\* and the client starts its solver on it (afterReset: whether the reset task
\* had run by then).
RequestChallenge(challenge) ==
    /\ Running
    /\ solver.pc = "off"
    /\ LET c == GenerateProofOfWorkChallenge(challenge, submissionCount, now)
       IN  solver' = [solver EXCEPT !.pc = "solving", !.challenge = c.challenge,
                                    !.difficulty = c.difficulty,
                                    !.timestamp = c.timestamp, !.i = 0,
                                    !.afterReset = ticker.ran]
    /\ UNCHANGED <<now, store, ipRequests, ipLastRequest, submissionCount, h, cache, q, client, ticker, calls, cli>>

NextLoad ==
    \/ IncrementSubmissionCount
    \/ ResetSubmissionCount
    \/ \E c \in Challenges : RequestChallenge(c)

\* Challenges issued while the load counter rises and is reset.
SpecLoad == Init /\ [][NextLoad]_vars

\* -------------------------------------------------------------- reset task
\* The goroutine of StartSubmissionCountReset, started once by main: it waits
\* on ticker.C, and a tick arrives every period.  ran tells whether it has
\* reset the counter yet, wipedDifficulty the difficulty of the load its last
\* reset wiped.
TickerFire ==
    /\ Running
    /\ ticker.pc = "waiting"
    /\ ticker' = [ticker EXCEPT !.pc = "fired"]
    /\ UNCHANGED <<now, store, ipRequests, ipLastRequest, submissionCount, h,
                   solver, cache, q, client, calls, cli>>

\* A task that resets the counter once and returns.
TickerResetOnce ==
    /\ ticker.pc = "fired"
    /\ submissionCount' = 0
    /\ ticker' = [pc |-> "returned", ran |-> TRUE,
                  wipedDifficulty |-> GetDynamicDifficulty(submissionCount)]
    /\ UNCHANGED <<now, store, ipRequests, ipLastRequest, h, solver, cache, q,
                   client, calls, cli>>

\* The loop body after the receive: ResetSubmissionCount(), then wait again.
TickerReset ==
    /\ Running
    /\ ticker.pc = "fired"
    /\ submissionCount' = 0
    /\ ticker' = [pc |-> "waiting", ran |-> TRUE,
                  wipedDifficulty |-> GetDynamicDifficulty(submissionCount)]
    /\ UNCHANGED <<now, store, ipRequests, ipLastRequest, h, solver, cache, q,
                   client, calls, cli>>

NextTicker ==
    \/ IncrementSubmissionCount
    \/ TickerFire
    \/ TickerReset
    \/ \E c \in Challenges : RequestChallenge(c)

\* The load counter under accepted submissions and the reset task.  The
\* ticker delivers a tick every period and the task's goroutine is scheduled,
\* so neither step stays enabled forever without being taken.
SpecTicker ==
    Init /\ [][NextTicker]_vars /\ WF_vars(TickerFire) /\ WF_vars(TickerReset)

\* ================================================================ properties
\* ------------------------------------------------------------------- C1
\* C1: however concurrent submit handlers interleave, the store never holds
\* two records with the same submission identifier.
UniqueSubmissionIds ==
    \A a, b \in store : a.submissionid = b.submissionid => a = b

\* ------------------------------------------------------------------- C2
\* Requests a and b carry the same identifier as token nonce and as
\* X-Submission-ID, each with a freshly minted token; a was accepted and
\* persisted before b arrived, b has been answered, and no third request
\* carries that identifier.
SameIdInSequence(a, b) ==
    LET x == h[b].req.id
    IN  /\ a # b
        /\ a \in h[b].after
        /\ h[b].pc = "done"
        /\ h[a].req.id = x
        /\ h[a].req.token = generateJWT(x, 0)
        /\ h[b].req.token = generateJWT(x, 0)
        /\ h[a].persisted
        /\ WireStatus(h[a]) = 200
        /\ \A c \in Handlers \ {a, b} : h[c].pc = "idle" \/ h[c].req.id # x

\* C2: of two requests with the same identifier issued one after the other,
\* the first accepted and persisted, the second is rejected as a replay
\* (unless the limiter or a store failure answered it first), whatever its
\* payload, and exactly one record with that identifier exists.
SequentialReplayRejected ==
    \A a, b \in Handlers :
        SameIdInSequence(a, b) =>
            /\ ~h[b].persisted
            /\ WireStatus(h[b]) # 200
            /\ h[b].resp[1].code \notin {429, 500} =>
                  h[b].resp[1] = [code |-> 401, error |-> "Replay attack detected",
                                  stage |-> StageReplayNonce]
            /\ Cardinality({d \in store : d.submissionid = h[b].req.id}) = 1

\* A second request with a different payload was turned away as a replay.
SequentialReplayWitness ==
    \E a, b \in Handlers :
        /\ SameIdInSequence(a, b)
        /\ h[b].req.body # h[a].req.body
        /\ WireStatus(h[b]) = 401
        /\ h[b].resp[1].error = "Replay attack detected"

\* ------------------------------------------------------------------- C3
\* C3: when the auth gate's replay check fails (the nonce is already stored,
\* or the lookup errors), the request ends there: no later stage runs and
\* nothing is persisted.
AuthReplayFailureIsTerminal ==
    \A i \in Handlers :
        (\E k \in DOMAIN h[i].resp : h[i].resp[k].stage = StageReplayNonce) =>
            /\ h[i].trace = <<StageLimit, StageToken, StageReplayNonce>>
            /\ ~h[i].persisted

\* ------------------------------------------------------------------- C4
\* C4: every persisted submission was authorised by a token whose nonce
\* claim equals its X-Submission-ID; a mismatching request is never persisted.
PersistedNonceMatchesId ==
    \A i \in Handlers :
        h[i].persisted =>
            /\ h[i].req.token.present
            /\ h[i].req.token.nonce = h[i].req.id

\* ------------------------------------------------------------------- C5
\* C5: a record is persisted only if X-Signature is the base64 MAC of
\* X-Submission-ID under the shared secret; a request that reaches the
\* signature check with a missing, malformed or mismatching signature is
\* answered 401 before any decryption and is not persisted.
SignatureGate ==
    \A i \in Handlers :
        LET rq == h[i].req
            sigOk == rq.sig.b64 /\ rq.sig.mac = [key |-> KEY, msg |-> rq.id]
            ranSignature == \E k \in DOMAIN h[i].trace : h[i].trace[k] = StageSignature
            ranDecrypt == \E k \in DOMAIN h[i].trace : h[i].trace[k] = StageDecrypt
        IN  /\ h[i].persisted => sigOk
            /\ (ranSignature /\ ~sigOk) =>
                  /\ h[i].pc = "done"
                  /\ WireStatus(h[i]) = 401
                  /\ ~ranDecrypt
                  /\ ~h[i].persisted

\* ------------------------------------------------------------------- C6
\* C6: the auth gate lets a request through to the handler only with a token
\* that is HMAC-signed with the shared key and not expired; a request with no
\* token, a bad signature, a non-HMAC algorithm or a past exp is answered 401
\* at the token check and ends there, so no handler stage runs for it and
\* nothing is persisted.  A token a client minted (exp = iat + 60) and
\* presented within those 60 seconds is not refused by the token check.
TokenGate ==
    /\ [][\A i \in Handlers :
            LET token == h[i].req.token
                good == /\ token.present
                        /\ token.alg \in {"HS256", "HS384", "HS512"}
                        /\ token.key = KEY
                        /\ ~(token.exp < now)
            IN  (h[i].pc = "auth" /\ h'[i] # h[i]) =>
                    /\ ~good =>
                          /\ h'[i].pc = "done"
                          /\ Len(h'[i].resp) = 1
                          /\ h'[i].resp[1].code = 401
                          /\ h'[i].resp[1].stage = StageToken
                          /\ ~h'[i].persisted
                          /\ h'[i].trace = <<StageLimit, StageToken>>
                    /\ (token = generateJWT(token.nonce, 0)
                            /\ now <= TokenLifetimeSeconds) =>
                          h'[i].resp = <<>> \/ h'[i].resp[1].error # "invalid token"]_vars
    /\ [](\A i \in Handlers :
            ((\E k \in DOMAIN h[i].trace : h[i].trace[k] = StageSignature)
                \/ h[i].persisted) =>
                /\ h[i].req.token.present
                /\ h[i].req.token.alg \in {"HS256", "HS384", "HS512"}
                /\ h[i].req.token.key = KEY)

\* An expired token was refused with 401 at the token check.
TokenGateWitness ==
    \E i \in Handlers :
        /\ h[i].pc = "done"
        /\ h[i].req.token.present
        /\ h[i].req.token.key = KEY
        /\ h[i].req.token.exp < now
        /\ WireStatus(h[i]) = 401
        /\ h[i].trace = <<StageLimit, StageToken>>

\* ------------------------------------------------------------------- C7
\* The stages in the order the registered middleware and the handler run them.
CodeStageOrder ==
    <<StageLimit, StageToken, StageReplayNonce, StageSignature, StageReplayId,
      StageDecrypt, StageValidate, StagePow, StageSource, StagePersist, StageCount>>

LimiterRejectionIsInert ==
    /\ [][\A i \in Handlers :
            (h[i].pc = "idle" /\ h'[i].resp # <<>>) =>
                /\ store' = store
                /\ ipRequests' = ipRequests
                /\ ipLastRequest' = ipLastRequest
                /\ submissionCount' = submissionCount]_vars
    /\ [](\A i \in Handlers :
            (h[i].resp # <<>> /\ h[i].resp[1].stage = StageLimit) =>
                /\ h[i].pc = "done"
                /\ h[i].trace = <<StageLimit>>
                /\ h[i].resp = <<[code |-> 429,
                                  error |-> "You have reached maximum request limit.",
                                  stage |-> StageLimit]>>
                /\ ~h[i].persisted
                /\ \A d \in store : d._id # i)

\* The limiter rejected a request that every later stage would have accepted,
\* while the store already held a record.
LimiterRejectionWitness ==
    \E i \in Handlers :
        /\ h[i].pc = "done"
        /\ WireStatus(h[i]) = 429
        /\ h[i].req \in ValidRequests0
        /\ store # {}
        /\ \A d \in store : d.submissionid # h[i].req.id

\* ------------------------------------------------------------------- C9
\* C9: every stored record names a model of MODELS and has tokens_per_second
\* > 0 and eval_count > 0; a decrypted payload that violates one of these is
\* answered 400 and is not persisted.
OnlyValidatedRecords ==
    LET Valid(r) == /\ r.model_name \in {MODELS[k] : k \in DOMAIN MODELS}
                    /\ r.tokens_per_second > 0
                    /\ r.eval_count > 0
    IN  /\ \A d \in store : Valid(d.result)
        /\ \A i \in Handlers :
              LET o == Opened(h[i].req)
              IN  (/\ \E k \in DOMAIN h[i].trace : h[i].trace[k] = StageValidate
                   /\ o.pt.json
                   /\ ~Valid(o.pt.r)) =>
                      /\ h[i].pc = "done"
                      /\ WireStatus(h[i]) = 400
                      /\ ~h[i].persisted

\* ------------------------------------------------------------------- C10
\* C10: a nonce the solver returned for (challenge, difficulty), verified no
\* later than 60 seconds after the challenge's timestamp, is accepted by
\* VerifyProofOfWork; any nonce whose digest of challenge + nonce has fewer
\* than `difficulty` leading zeros is refused.
SolverVerifierAgree ==
    LET digest == Sum256Hex(solver.challenge \o solver.nonce)
        zeros == CHOOSE n \in 0..HexDigestLen :
                    /\ \A k \in 1..n : digest[k] = Zero
                    /\ n = HexDigestLen \/ digest[n + 1] # Zero
    IN  solver.pc = "checked" =>
            /\ (solver.fromSolver
                    /\ solver.checkedAt - solver.timestamp <= PowValiditySeconds) =>
                  solver.verified
            /\ zeros < solver.difficulty => ~solver.verified

\* The solver searched past its first candidates for the hardest difficulty
\* and its nonce was verified a second after the challenge was issued.
SolverVerifierWitness ==
    /\ solver.pc = "checked"
    /\ solver.fromSolver
    /\ solver.difficulty = MaxDifficulty
    /\ solver.i > 0
    /\ solver.checkedAt > solver.timestamp
    /\ solver.verified

\* ------------------------------------------------------------------- C11
\* C11: VerifyProofOfWork refuses every solution whose timestamp is 61 or
\* more seconds before the current time, whatever the challenge, the nonce
\* (one that satisfies the prefix condition included) and the difficulty; a
\* submission carrying such a solution is answered 401 at the proof-of-work
\* stage and is never persisted.
StaleSolutionRefused ==
    /\ \A c \in Challenges, n \in {SolvedNonce, UnsolvedNonce},
          d \in {0, BaseDifficulty},
          ts \in {now - PowValiditySeconds - 1, now - PowValiditySeconds - 2} :
            ~VerifyProofOfWork(c, n, d, ts, now)
    /\ \A i \in Handlers :
          LET o == Opened(h[i].req)
              stale == now - o.pt.r.proof_of_work.timestamp >= PowValiditySeconds + 1
          IN  (h[i].pc # "idle" /\ o.openOk /\ o.pt.json /\ stale) =>
                  /\ ~h[i].persisted
                  /\ (\E k \in DOMAIN h[i].trace : h[i].trace[k] = StagePow) =>
                        /\ h[i].pc = "done"
                        /\ h[i].trace[Len(h[i].trace)] = StagePow
                        /\ h[i].resp[Len(h[i].resp)] =
                              [code |-> 401,
                               error |-> "Invalid proof-of-work solution",
                               stage |-> StagePow]

\* A solution issued 61 seconds ago whose nonce satisfies the prefix condition
\* was refused at the proof-of-work stage.
StaleSolutionWitness ==
    \E i \in Handlers :
        LET pow == Opened(h[i].req).pt.r.proof_of_work
        IN  /\ h[i].pc = "done"
            /\ h[i].trace[Len(h[i].trace)] = StagePow
            /\ now - pow.timestamp = PowValiditySeconds + 1
            /\ HasPrefix(Sum256Hex(pow.challenge \o pow.nonce),
                         Repeat(Zero, pow.difficulty))
            /\ pow.difficulty = BaseDifficulty
            /\ WireStatus(h[i]) = 401

\* ------------------------------------------------------------------- C12
\* C12: VerifyProofOfWork refuses every solution whose timestamp lies in the
\* future of the server clock.
FutureSolutionRefused ==
    (solver.pc = "checked" /\ solver.timestamp > solver.checkedAt) =>
        ~solver.verified

\* ------------------------------------------------------------------- C13
\* C13: the difficulty of an issued challenge is the step function of the
\* load counter c at issue: 6 for c > 100, 5 for 50 < c <= 100, 4 for
\* c <= 50; c = 50 gives 4 and c = 100 gives 5; every issued challenge
\* carries a difficulty in {4, 5, 6}.
DifficultySchedule ==
    [][(solver.pc = "off" /\ solver'.pc = "solving") =>
          LET c == submissionCount
              d == solver'.difficulty
          IN  /\ d \in {4, 5, 6}
              /\ c > 100 => d = 6
              /\ (c > 50 /\ c <= 100) => d = 5
              /\ c <= 50 => d = 4
              /\ c = 50 => d = 4
              /\ c = 100 => d = 5]_vars

\* A challenge of difficulty 5 stands issued while the counter is at 100,
\* hence was issued at a counter value in 51..100.
DifficultyScheduleWitness ==
    /\ solver.pc = "solving"
    /\ solver.difficulty = 5
    /\ submissionCount = 100

\* ------------------------------------------------------------------- C14
\* Requests a and b claim the same source address, a was answered before b
\* arrived, both went through checkIP and no third request of that source
\* entered it.
SameSourceInSequence(a, b) ==
    LET ip == Opened(h[a].req).pt.r.ip
        Checked(i) == \E k \in DOMAIN h[i].trace : h[i].trace[k] = StageSource
    IN  /\ a # b
        /\ a \in h[b].after
        /\ Opened(h[b].req).pt.r.ip = ip
        /\ Checked(a)
        /\ Checked(b)
        /\ \A c \in Handlers \ {a, b} :
              \/ h[c].pc = "idle"
              \/ Opened(h[c].req).pt.r.ip # ip
              \/ ~(Checked(c) \/ h[c].pc \in {"source_store", "fatal"})

\* C14: with requestLimit = 1 and timeWindow = 1 s, of two otherwise valid
\* submissions of one source whose checkIP calls are d apart, the second is
\* rejected when d is less than the window and both are admitted when d is
\* greater than the window.
WindowedSourceLimit ==
    \A a, b \in Handlers :
        SameSourceInSequence(a, b) =>
            LET d == h[b].ipNow - h[a].ipNow
                Limited(i) == \E k \in DOMAIN h[i].resp :
                                  h[i].resp[k].stage = StageSource
            IN  /\ d < timeWindow =>
                      /\ ~Limited(a)
                      /\ h[b].pc = "done"
                      /\ h[b].resp[Len(h[b].resp)] =
                            [code |-> 401, error |-> "IP address is rate limited",
                             stage |-> StageSource]
                      /\ ~h[b].persisted
                /\ d > timeWindow => ~Limited(a) /\ ~Limited(b)

\* Two submissions of one source two seconds apart were both persisted.
WindowedSourceLimitWitness ==
    \E a, b \in Handlers :
        /\ SameSourceInSequence(a, b)
        /\ h[b].ipNow - h[a].ipNow > timeWindow
        /\ h[a].persisted
        /\ h[b].persisted
        /\ WireStatus(h[b]) = 200

\* ------------------------------------------------------------------- C15
\* C15: checkIP's read-modify-write is atomic per source: however handlers
\* whose payloads claim one address within one window interleave, at most
\* requestLimit of them are admitted, and once none of them is inside checkIP
\* the counter equals the number of its calls for that address.
AtomicPerSource ==
    \A ip \in IPs :
        LET OfSource(i) == h[i].pc # "idle" /\ Opened(h[i].req).pt.r.ip = ip
            Checked(i) == \E k \in DOMAIN h[i].trace : h[i].trace[k] = StageSource
            Limited(i) == \E k \in DOMAIN h[i].resp : h[i].resp[k].stage = StageSource
            checked == {i \in Handlers : OfSource(i) /\ Checked(i)}
            inside == {i \in Handlers : OfSource(i) /\ h[i].pc = "source_store"}
        IN  /\ Cardinality({i \in checked : ~Limited(i)}) <= requestLimit
            /\ (checked # {} /\ inside = {}) =>
                  /\ ip \in DOMAIN ipRequests
                  /\ ipRequests[ip] = Cardinality(checked)

InsertFailureIs5xx ==
    \A i \in Handlers :
        (/\ h[i].pc = "done"
         /\ ~h[i].persisted
         /\ h[i].trace # <<>>
         /\ h[i].trace[Len(h[i].trace)] = StagePersist) =>
            /\ WireStatus(h[i]) >= 500
            /\ WireStatus(h[i]) <= 599
            /\ \A k \in DOMAIN h[i].trace : h[i].trace[k] # StageCount

\* ------------------------------------------------------------------- C20
\* C20: every way the open of a well-formed envelope fails (malformed base64
\* in a field, a wrapped key that does not unwrap, an unwrapped key of invalid
\* length, a nonce of the wrong width, a tag mismatch) ends the request at
\* the decrypt stage with the one response 401 "Decryption failed" and
\* nothing persisted.
OpaqueDecryptionError ==
    \A i \in Handlers :
        LET o == Opened(h[i].req)
            ranDecrypt == \E k \in DOMAIN h[i].trace : h[i].trace[k] = StageDecrypt
        IN  (ranDecrypt /\ o.json /\ (~o.unwrapOk \/ o.panics \/ ~o.openOk)) =>
                /\ h[i].pc = "done"
                /\ h[i].trace[Len(h[i].trace)] = StageDecrypt
                /\ h[i].resp[Len(h[i].resp)] =
                      [code |-> 401, error |-> "Decryption failed",
                       stage |-> StageDecrypt]
                /\ ~h[i].persisted

\* ------------------------------------------------------------------- C17
\* C17 as stated: a cached item is served only if it was stored less than 5
\* seconds ago, an older one is never returned, so that every list response
\* reflects a store read performed at most 5 seconds earlier.
ResponseReadWithinTTL ==
    (q.pc = "done" /\ q.code = 200) =>
        /\ q.fromCache => q.servedAt - q.entryAt < CacheTTLSeconds
        /\ q.servedAt - q.readAt <= CacheTTLSeconds

\* C17 amended: a cached item is served only if it was stored less than 5
\* seconds ago; an item aged 5 seconds or more is never returned and the
\* store is queried instead, within the request.  The age is counted from
\* cache.Store, which follows the store reads, so the read behind a served
\* item is never younger than the item and may be older than 5 seconds.
ResponseCachedWithinTTL ==
    (q.pc = "done" /\ q.code = 200) =>
        /\ q.fromCache =>
              /\ q.servedAt - q.entryAt < CacheTTLSeconds
              /\ q.readAt <= q.entryAt
        /\ ~q.fromCache =>
              /\ q.entryAt = q.servedAt
              /\ q.readAt <= q.servedAt
              /\ cache[cacheKey(q.query)].timestamp >= q.entryAt

\* An item cached 4 seconds ago was served although its data was read from
\* the store 6 seconds ago.
ResponseCachedWitness ==
    /\ q.pc = "done"
    /\ q.code = 200
    /\ q.fromCache
    /\ q.servedAt - q.entryAt = CacheTTLSeconds - 1
    /\ q.servedAt - q.readAt > CacheTTLSeconds

\* ------------------------------------------------------------------- C18
\* C18: the submit path never stores, updates or deletes a cache item: every
\* step of a submit handler leaves the cache as it was, and a list query
\* issued within the TTL of an item returns that item's page and total,
\* whatever was persisted since.
SubmitLeavesCache ==
    /\ [][h' # h => cache' = cache]_vars
    /\ [](\A key \in DOMAIN cache :
            (q.pc = "done" /\ q.fromCache /\ cacheKey(q.query) = key
                /\ cache[key].timestamp = q.entryAt) =>
                /\ q.data = cache[key].data
                /\ q.total = cache[key].count)

\* A list served from the cache is empty with total 0 although a submission
\* was persisted and counted after the item was cached.
SubmitLeavesCacheWitness ==
    /\ q.pc = "done"
    /\ q.fromCache
    /\ q.data = {}
    /\ q.total = 0
    /\ \E i \in Handlers : h[i].pc = "done" /\ h[i].persisted
    /\ store # {}

ValidRequestPersisted ==
    \A i \in Handlers :
        (/\ h[i].pc = "done"
         /\ \E k \in DOMAIN h[i].trace : h[i].trace[k] = StageSource
         /\ \A k \in DOMAIN h[i].resp :
                h[i].resp[k].stage \notin {StageLimit, StageToken, StageReplayNonce,
                                          StageSource}
         /\ h[i].trace[Len(h[i].trace)] # StagePersist) =>
            /\ h[i].persisted
            /\ WireStatus(h[i]) = 200
            /\ \E d \in store : d.submissionid = h[i].req.id

\* ------------------------------------------------------------------- C23
\* C23: over every sequence of submit requests and admin removals
\* (removeBenchmark, banIP), an identifier that was once persisted is never
\* accepted again: a request that arrives after a request with the same
\* identifier was persisted is not persisted.
OnceRecordedNeverAccepted ==
    \A a, b \in Handlers :
        (/\ a # b
         /\ a \in h[b].after
         /\ h[a].persisted
         /\ h[a].req.id = h[b].req.id) =>
            ~h[b].persisted

\* ------------------------------------------------------------------- C24
\* C24: in each client attempt the steps occur in this order: request a
\* challenge, solve it, only then build the envelope, mint the token and
\* compute the signature, then post; the token is minted after the solution
\* was found.
ClientStepOrder ==
    LET Pos(step) == CHOOSE k \in DOMAIN client.steps : client.steps[k] = step
    IN  client.pc \in {"posted", "ok", "failed"} =>
            /\ Pos("challenge") < Pos("solve")
            /\ Pos("solve") < Pos("seal")
            /\ Pos("solve") < Pos("token")
            /\ Pos("solve") < Pos("sign")
            /\ Pos("seal") < Pos("post")
            /\ Pos("token") < Pos("post")
            /\ Pos("sign") < Pos("post")
            /\ client.token.exp - TokenLifetimeSeconds >= client.solvedAt

\* ------------------------------------------------------------------- C25
\* C25: every client attempt, a retry after a rejection included, runs the
\* whole protocol from its first step and with values of its own: its
\* submission identifier, key and nonce bytes, token and challenge differ
\* from those of every earlier attempt, and its proof-of-work nonce is the
\* solution of its own challenge, which the posted request carries.
FreshAttempts ==
    /\ client.pc \in {"posted", "ok", "failed"} =>
          LET pow == Opened(client.req).pt.r.proof_of_work
          IN  /\ client.steps = <<"aes_key", "uuid", "token", "challenge", "solve",
                                  "seal", "sign", "post">>
              /\ client.req.id = client.id
              /\ client.req.token = client.token
              /\ client.req.body.encrypted_key.val.key.k = client.seed
              /\ client.req.body.nonce.val.n = client.seed
              /\ pow.challenge = client.challenge.challenge
              /\ pow.nonce = client.nonce
              /\ SolverAccepts(pow.challenge, pow.difficulty,
                               FirstNonce(pow.challenge, pow.difficulty))
              /\ pow.nonce = Itoa(FirstNonce(pow.challenge, pow.difficulty))
              /\ \A k \in DOMAIN client.past :
                    LET p == client.past[k]
                    IN  /\ p.id # client.id
                        /\ p.seed # client.seed
                        /\ p.token # client.token
                        /\ p.challenge.challenge # client.challenge.challenge
                        /\ <<p.challenge.challenge, p.nonce>> #
                              <<pow.challenge, pow.nonce>>
    /\ \A k, l \in DOMAIN client.past :
          k # l =>
              /\ client.past[k].id # client.past[l].id
              /\ client.past[k].seed # client.past[l].seed
              /\ client.past[k].token # client.past[l].token
              /\ client.past[k].challenge.challenge #
                    client.past[l].challenge.challenge

\* A second attempt, made after the first was refused for its expired token,
\* was accepted.
FreshAttemptsWitness ==
    /\ client.pc = "ok"
    /\ client.attempt = 2
    /\ client.past[1].status = 401
    /\ h[2].persisted
    /\ \E d \in store : d.submissionid = client.id

\* ------------------------------------------------------------------- C26
\* C26: the reset task resets the load counter to 0 on every tick: the
\* counter is reset infinitely often; each reset leaves it at 0, only an
\* accepted submission moves it off 0, and a challenge issued while it is 0
\* (after a reset with no submission accepted since) has difficulty 4.
ResetKeepsBaseline ==
    /\ []<><<TickerReset>>_vars
    /\ [][ticker'.pc # ticker.pc /\ ticker.pc = "fired" =>
            submissionCount' = 0 /\ ticker'.pc = "waiting"]_vars
    /\ [][(submissionCount = 0 /\ submissionCount' # 0) =>
            (submissionCount' = 1 /\ ticker' = ticker)]_vars
    /\ [][(solver.pc = "off" /\ solver'.pc = "solving" /\ submissionCount = 0) =>
            solver'.difficulty = 4]_vars

\* The task wiped a load above 50 and the challenge issued after that reset
\* has difficulty 4.
ResetKeepsBaselineWitness ==
    /\ ticker.ran
    /\ ticker.wipedDifficulty > 4
    /\ submissionCount = 0
    /\ solver.pc = "solving"
    /\ solver.afterReset
    /\ solver.difficulty = 4

\* ------------------------------------------------------------------- C27
\* The address handler i's payload reports; whether the handler has been
\* through checkIP, was refused by it, is inside it.
ClaimedAddress(i) == Opened(h[i].req).pt.r.ip

CheckedSource(i) == \E k \in DOMAIN h[i].trace : h[i].trace[k] = StageSource

LimitedAtSource(i) == \E k \in DOMAIN h[i].resp : h[i].resp[k].stage = StageSource

InsideCheckIP(i) == h[i].pc \in {"source", "source_store"}

\* C27: the per-source decision for a request depends only on the address
\* reported in its decrypted payload and on that key's counter and last-seen
\* time, never on the transport-layer address.  checkIP reads and writes the
\* maps only at the reported address; the counter it increments is the one of
\* that key (restarted when the key was last seen more than a window ago),
\* and the request is refused exactly when the incremented counter exceeds
\* requestLimit.  Of two requests in sequence, whatever their transport
\* addresses, the second is refused when both report one address within a
\* window and is admitted when they report different addresses.
ThrottleKeyedOnPayload ==
    /\ [][\A i \in Handlers :
            /\ (h[i].pc = "source" /\ h'[i].pc = "source_store") =>
                  LET ip == ClaimedAddress(i)
                      seen == ip \in DOMAIN ipLastRequest
                      count == IF ip \in DOMAIN ipRequests
                               THEN ipRequests[ip] ELSE 0
                  IN  h'[i].loaded =
                        IF seen /\ now - ipLastRequest[ip] > timeWindow
                        THEN 0 ELSE count
            /\ (h[i].pc = "source_store" /\ h'[i].pc \in {"done", "insert"}) =>
                  /\ (h'[i].pc = "done") = (h[i].loaded + 1 > requestLimit)
                  /\ ClaimedAddress(i) \in DOMAIN ipRequests'
                  /\ ClaimedAddress(i) \in DOMAIN ipLastRequest'
                  /\ ipRequests'[ClaimedAddress(i)] = h[i].loaded + 1
                  /\ ipLastRequest'[ClaimedAddress(i)] = h[i].ipNow]_vars
    /\ [][\A ip \in IPs \cup Remotes :
            LET Entry(m) == IF ip \in DOMAIN m THEN <<m[ip]>> ELSE <<>>
            IN  (Entry(ipRequests') # Entry(ipRequests)
                    \/ Entry(ipLastRequest') # Entry(ipLastRequest)) =>
                  \E i \in Handlers :
                      InsideCheckIP(i) /\ h'[i] # h[i] /\ ClaimedAddress(i) = ip]_vars
    /\ [](\A a, b \in Handlers :
            (/\ a # b
             /\ a \in h[b].after
             /\ CheckedSource(a) /\ CheckedSource(b)
             /\ \A c \in Handlers \ {a, b} :
                   h[c].pc = "idle" \/ ~(CheckedSource(c) \/ InsideCheckIP(c))) =>
                /\ (ClaimedAddress(a) = ClaimedAddress(b)
                        /\ h[b].ipNow - h[a].ipNow < timeWindow) => LimitedAtSource(b)
                /\ ClaimedAddress(a) # ClaimedAddress(b) => ~LimitedAtSource(b))

\* A request reporting an address was refused because a request sent from
\* another transport address had reported the same address, and two requests
\* from one transport address reporting different addresses are possible
\* inputs of the same handlers.
ThrottleKeyedWitness ==
    \E a, b \in Handlers :
        /\ a # b
        /\ a \in h[b].after
        /\ h[a].req.remote # h[b].req.remote
        /\ h[a].req.remote \notin IPs
        /\ SourceKey(h[a].req) = SourceKey(h[b].req)
        /\ h[a].persisted
        /\ h[b].pc = "done"
        /\ h[b].resp = <<[code |-> 401, error |-> "IP address is rate limited",
                          stage |-> StageSource]>>

\* ------------------------------------------------------------------- C28
\* C28: a submit request rejected at a stage before the per-source check
\* (token, replay, signature, envelope parse, decryption, validation, proof
\* of work) leaves the store, the load counter, the per-source counters and
\* last-seen times and the read cache unchanged: once a handler has written
\* such a rejection, no step of it changes any of them.
EarlyRejectionIsInert ==
    [][\A i \in Handlers :
          (/\ h[i].resp # <<>>
           /\ h[i].resp[1].stage \in {StageToken, StageReplayNonce, StageSignature,
                                      StageReplayId, StageDecrypt, StageValidate,
                                      StagePow}
           /\ h'[i] # h[i]) =>
              /\ store' = store
              /\ submissionCount' = submissionCount
              /\ ipRequests' = ipRequests
              /\ ipLastRequest' = ipLastRequest
              /\ cache' = cache]_vars

\* ------------------------------------------------------------------- C29
\* C29: a cache hit returns only a result that was stored by a query with
\* the same sort field, sort order, page, page size and filter set (the
\* cache key is injective over the query parameters, filter values with
\* spaces or colons included).
CacheHitSameQuery ==
    (q.pc = "done" /\ q.fromCache) => q.storedBy = q.query

\* ------------------------------------------------------------------- C30
\* C30: every persisted submission carries a proof of work whose digest of
\* challenge and nonce has at least the baseline number (4) of leading zero
\* hex digits: the sender cannot lower the difficulty the server verifies.
StoredWorkMeetsBaseline ==
    \A d \in store :
        LET w == d.result.proof_of_work
        IN  HasPrefix(Sum256Hex(w.challenge \o w.nonce),
                      Repeat(Zero, BaseDifficulty))

\* ------------------------------------------------------------------- C31
\* C31: a proof-of-work solution (challenge, nonce, difficulty, timestamp)
\* admits at most one persisted submission: once a submission carrying it
\* has been accepted, a submission that arrives later with a different
\* identifier and the same solution is not persisted.
SolutionAdmitsOneSubmission ==
    \A a, b \in Handlers :
        (/\ a # b
         /\ a \in h[b].after
         /\ h[a].persisted
         /\ WireStatus(h[a]) = 200
         /\ h[b].persisted
         /\ h[a].req.id # h[b].req.id)
            => Opened(h[a].req).pt.r.proof_of_work
                   # Opened(h[b].req).pt.r.proof_of_work

\* ------------------------------------------------------------------- C32
\* C32: the identifier stored in a persisted record equals the
\* X-Submission-ID header of the request that created it, the value whose
\* signature and uniqueness the handler checked; a submission_id inside the
\* decrypted payload never determines it.
StoredIdIsHeader ==
    \A d \in store :
        LET rq == h[d._id].req
        IN  /\ d.submissionid = rq.id
            /\ d.result.submission_id = rq.id
            /\ verifySignature(rq.id, rq.sig, KEY)
            /\ \E k, l \in 1..Len(h[d._id].trace) :
                  /\ k < l
                  /\ h[d._id].trace[k] = StageSignature
                  /\ h[d._id].trace[l] = StageReplayId

\* A request whose payload names another identifier than its header was
\* persisted under the header's.
StoredIdIsHeaderWitness ==
    \E d \in store :
        LET rq == h[d._id].req
        IN  /\ Opened(rq).pt.r.submission_id \notin {"", rq.id}
            /\ d.submissionid = rq.id
            /\ d.result.submission_id = rq.id

\* ------------------------------------------------------------------- C33
\* C33: of the requests claiming one source address, checkIP admits a
\* request whenever more than one window has elapsed since that address's
\* most recent admitted request: requests the per-source limit rejected do
\* not postpone the next admission.
AdmittedAfterWindow ==
    (/\ calls.n > 0
     /\ calls.last.since >= 0
     /\ calls.last.at - calls.last.since > timeWindow)
        => calls.last.admitted

\* ------------------------------------------------------------------- C34
\* Iteration k's decode loop has ended.
CliIterationOver(k) ==
    /\ cli.g[k] # "none"
    /\ k < cli.i \/ cli.pc \notin {"decode", "send_eof", "send_err"}

\* C34: in CLI mode the progress goroutine of every iteration is signalled
\* on the unbuffered done channel exactly once, on the end-of-stream path and
\* on the decode-error path: a send always finds the goroutine at its select,
\* so it does not block forever, and the goroutine terminates.
DoneSignalledOnce ==
    /\ [](\A k \in 1..MaxIterations :
            /\ cli.sent[k] <= 1
            /\ CliIterationOver(k) => cli.sent[k] = 1
            /\ cli.sent[k] = 1 <=> cli.g[k] \in {"received", "returned"})
    /\ [](cli.pc \in {"send_eof", "send_err"} => cli.g[cli.i] = "select")
    /\ \A k \in 1..MaxIterations :
          (cli.pc \in {"send_eof", "send_err"} /\ cli.i = k)
              ~> (cli.pc \notin {"send_eof", "send_err"} /\ cli.g[k] = "returned")

\* A run whose first iteration ended at io.EOF and whose second ended at a
\* decode error: both goroutines were signalled once and have returned, and
\* a progress dot was printed.
DoneSignalledOnceWitness ==
    /\ MaxIterations >= 2
    /\ cli.path[1] = "eof" /\ cli.path[2] = "error"
    /\ cli.pc = "returned"
    /\ cli.sent[1] = 1 /\ cli.sent[2] = 1
    /\ cli.g[1] = "returned" /\ cli.g[2] = "returned"
    /\ cli.dots > 0

====
